---- MODULE Spec2Model ----
(***************************************************************************)
(* Model of gemini-image-node: the response masking and artifact writing   *)
(* of src/src/utils.js, the Imagen generator module, the Gemini generator  *)
(* and the proxy handling of src/src/auth.js (getAccessToken included),    *)
(* the options of src/index.js and src/src/interactive.js, and the store   *)
(* of src/src/config.js.                                                   *)
(*                                                                         *)
(* JavaScript values are tagged records:                                   *)
(*   [t |-> "undef"], [t |-> "null"], [t |-> "bool", b |-> ...],           *)
(*   [t |-> "num", n |-> ...], [t |-> "str", s |-> ...],                   *)
(*   [t |-> "arr", a |-> <<...>>], [t |-> "obj", f |-> [key |-> value]]    *)
(* and an object held by reference is [t |-> "ref", r |-> n], n an index   *)
(* of heap.  Messages the source prints or returns in Chinese are given in *)
(* English, the module text being ASCII.                                   *)
(***************************************************************************)
EXTENDS Integers, Sequences, FiniteSets, TLC

VARIABLES
  pc,        \* position of the running call
  heap,      \* object store: reference -> JSON tree
  obj,       \* argument handed to maskBase64Content / maskAndSaveJson
  obj0,      \* history: the tree obj referred to when the call was made
  ret,       \* value returned by maskBase64Content
  ret2,      \* value returned by maskBase64Content applied to ret
  fs,        \* file system: path -> content written
  writes,    \* history: paths of the image files written, in order
  result,    \* parsed body of the Imagen response
  requestId, \* `imagen_${Date.now()}`
  savedImagePaths, generatedCount, blockedCount,
  i,         \* index of the prediction the extraction pass looks at next
  out,       \* the record generateImagesWithImagen returns
  run,       \* 1: the invocation, 2: extraction repeated on the same response
  first,     \* history: images and files of run 1
  failing,   \* the paths at which fs.writeFileSync throws
  imageCount, \* the counter of processGeminiResponse over the matching parts
  failed,    \* history: the steps of the invocation that failed
  vendor,    \* "imagen" or "gemini": the generator that runs
  response,  \* what fetchWithProxy gave: an HTTP response or a network error
  referenceImages, \* the reference images of the Gemini options
  sent,      \* the number of calls of fetchWithProxy
  env,       \* process.env: name -> value, "" when the name is not set
  config,    \* the store of config.js
  argv,      \* the command-line flags fetchWithProxy is handed
  proxyAgent, \* what createProxyAgent gave
  fetchOptions, \* the options of fetch: the agent it goes through
  requests,  \* history: the agent of every request sent, in order
  error,     \* what the catch of fetchWithProxy caught
  original,  \* originalHttpProxy and originalHttpsProxy of that catch
  args,      \* the arguments of the call of a function looked at by itself
  returned,  \* what that call returned, and whether it threw
  totalRequested, \* options.count as the caller of the generator gave it
  logged     \* the notes of the accounting step written to the console

\* the variables of fetchWithProxy
proxyVars == <<env, config, argv, proxyAgent, fetchOptions, requests, error, original>>

\* the variables of a function called by itself
callVars == <<args, returned>>

\* the variables of the accounting step of generateImagesWithImagen
countVars == <<totalRequested, logged>>

\* the variables of the invocation as a whole
invVars == <<vendor, response, referenceImages, sent, proxyVars, callVars, countVars>>

\* the variables the masking and Imagen actions leave alone
extVars == <<failing, imageCount, invVars>>

vars == <<pc, heap, obj, obj0, ret, ret2, fs, writes, result, requestId,
          savedImagePaths, generatedCount, blockedCount, i, out, run, first,
          failed, extVars>>

-----------------------------------------------------------------------------
(* Bounds of the model *)

\* longest predictions array
MaxPreds == 2
\* longest content.parts array
MaxParts == 2

-----------------------------------------------------------------------------
(* JavaScript values *)

Undef == [t |-> "undef"]
Null == [t |-> "null"]
Bool(b) == [t |-> "bool", b |-> b]
Num(n) == [t |-> "num", n |-> n]
Str(s) == [t |-> "str", s |-> s]
Arr(a) == [t |-> "arr", a |-> a]
Obj(f) == [t |-> "obj", f |-> f]
Ref(r) == [t |-> "ref", r |-> r]
EmptyObj == Obj([k \in {} |-> Null])

\* ToBoolean
Truthy(v) ==
  CASE v.t \in {"undef", "null"} -> FALSE
    [] v.t = "bool" -> v.b
    [] v.t = "num" -> v.n # 0
    [] v.t = "str" -> v.s # ""
    [] OTHER -> TRUE

\* Array.isArray
IsArray(v) == v.t = "arr"

\* typeof v === 'object' (null included, as in JavaScript)
TypeofObject(v) == v.t \in {"null", "obj", "arr", "ref"}

\* largest array index a path can name
MaxIndex == MaxPreds + MaxParts + 2

\* a property key that is an array index
IsIndex(seg) == \E n \in 0..MaxIndex : ToString(n) = seg
IdxOf(seg) == CHOOSE n \in 0..MaxIndex : ToString(n) = seg

\* v[seg] throws a TypeError exactly when v is null or undefined
PropThrows(v) == v.t \in {"undef", "null"}

\* v[seg] for a v that is neither null nor undefined
GetProp(v, seg) ==
  CASE v.t = "obj" -> IF seg \in DOMAIN v.f THEN v.f[seg] ELSE Undef
    [] v.t = "arr" ->
         IF IsIndex(seg) /\ IdxOf(seg) < Len(v.a) THEN v.a[IdxOf(seg) + 1]
         ELSE IF seg = "length" THEN Num(Len(v.a)) ELSE Undef
    [] v.t = "str" ->
         IF IsIndex(seg) /\ IdxOf(seg) < Len(v.s)
         THEN Str(SubSeq(v.s, IdxOf(seg) + 1, IdxOf(seg) + 1))
         ELSE IF seg = "length" THEN Num(Len(v.s)) ELSE Undef
    [] OTHER -> Undef

\* order in which JSON.stringify meets the keys of the objects of the model
KeyOrder == <<"predictions", "candidates", "modelVersion", "raiFilteredReason",
              "images", "bytesBase64Encoded", "mimeType", "finishReason",
              "content", "parts", "text", "inlineData", "inline_data",
              "mime_type", "data",
              "instances", "prompt", "parameters", "sampleCount",
              "contents", "generationConfig", "responseModalities",
              "error", "code", "message", "status",
              "url", "options", "method", "headers", "Content-Type",
              "Authorization", "body", "timestamp", "proxyUsed">>

\* JSON.parse(JSON.stringify(v)): a fresh tree; a property holding undefined
\* is dropped, an array element holding undefined becomes null
RECURSIVE JsonRoundTrip(_)
JsonRoundTrip(v) ==
  CASE v.t = "obj" ->
         Obj([k \in {k \in DOMAIN v.f : v.f[k].t # "undef"} |-> JsonRoundTrip(v.f[k])])
    [] v.t = "arr" ->
         Arr([n \in 1..Len(v.a) |->
               IF v.a[n].t = "undef" THEN Null ELSE JsonRoundTrip(v.a[n])])
    [] OTHER -> v

\* JSON.stringify(v, null, indent) as the sequence of its tokens: a
\* punctuation mark [punct |-> c], a string literal [lit |-> s], any other
\* scalar [scalar |-> v]
Punct(c) == [punct |-> c]
RECURSIVE JsonStringify(_)
RECURSIVE StringifyMembers(_, _)
RECURSIVE StringifyElements(_, _)
JsonStringify(v) ==
  CASE v.t = "obj" -> <<Punct("{")>> \o StringifyMembers(v.f, 1) \o <<Punct("}")>>
    [] v.t = "arr" -> <<Punct("[")>> \o StringifyElements(v.a, 1) \o <<Punct("]")>>
    [] v.t = "str" -> <<[lit |-> v.s]>>
    [] OTHER -> <<[scalar |-> v]>>
StringifyMembers(f, n) ==
  IF n > Len(KeyOrder) THEN <<>>
  ELSE IF KeyOrder[n] \in DOMAIN f /\ f[KeyOrder[n]].t # "undef"
       THEN <<[lit |-> KeyOrder[n]], Punct(":")>> \o JsonStringify(f[KeyOrder[n]])
              \o <<Punct(",")>> \o StringifyMembers(f, n + 1)
       ELSE StringifyMembers(f, n + 1)
StringifyElements(a, n) ==
  IF n > Len(a) THEN <<>>
  ELSE JsonStringify(IF a[n].t = "undef" THEN Null ELSE a[n])
         \o <<Punct(",")>> \o StringifyElements(a, n + 1)

-----------------------------------------------------------------------------
(* Path-value accessor, src/src/utils.js *)

\* path.replace(/\[(\d+)\]/g, '.$1') on a path given as its tokens
RECURSIVE ReplaceBrackets(_)
ReplaceBrackets(p) ==
  IF p = <<>> THEN <<>>
  ELSE IF Len(p) >= 3 /\ p[1] = "[" /\ IsIndex(p[2]) /\ p[3] = "]"
       THEN <<".", p[2]>> \o ReplaceBrackets(SubSeq(p, 4, Len(p)))
       ELSE <<p[1]>> \o ReplaceBrackets(Tail(p))

\* .split('.') on a token sequence: the tokens between two dots are one segment
RECURSIVE SplitDots(_, _)
SplitDots(p, cur) ==
  IF p = <<>> THEN <<cur>>
  ELSE IF p[1] = "." THEN <<cur>> \o SplitDots(Tail(p), "")
       ELSE SplitDots(Tail(p), cur \o p[1])

Segments(path) == SplitDots(ReplaceBrackets(path), "")

\* the loop of getValueAtPath from segment n on; [threw, v]
RECURSIVE GetLoop(_, _, _)
GetLoop(current, segments, n) ==
  IF n > Len(segments) THEN [threw |-> FALSE, v |-> current]
  ELSE IF current.t = "undef" THEN [threw |-> FALSE, v |-> Undef]
  ELSE IF PropThrows(current) THEN [threw |-> TRUE, v |-> Undef]
  ELSE GetLoop(GetProp(current, segments[n]), segments, n + 1)

getValueAtPath(root, path) == GetLoop(root, Segments(path), 1)

\* current[key] = value; [threw, v] with v the object after the assignment
\* (module code is strict: assigning a property of a primitive throws)
AssignProp(current, key, value) ==
  CASE current.t = "obj" ->
         [threw |-> FALSE,
          v |-> Obj([k \in DOMAIN current.f \cup {key} |->
                      IF k = key THEN value ELSE current.f[k]])]
    [] current.t = "arr" ->
         [threw |-> FALSE,
          v |-> IF IsIndex(key) /\ IdxOf(key) < Len(current.a)
                THEN Arr([current.a EXCEPT ![IdxOf(key) + 1] = value])
                ELSE IF IsIndex(key)
                     THEN Arr(current.a
                                \o [n \in 1..(IdxOf(key) - Len(current.a)) |-> Undef]
                                \o <<value>>)
                     ELSE current]
    [] OTHER -> [threw |-> TRUE, v |-> current]

\* the loop of setValueAtPath from segment n on, and the final assignment;
\* [threw, v] with v the tree rooted at current after the call
RECURSIVE SetLoop(_, _, _, _)
SetLoop(current, segments, n, value) ==
  IF n = Len(segments) THEN AssignProp(current, segments[n], value)
  ELSE IF PropThrows(current) THEN [threw |-> TRUE, v |-> current]
  ELSE LET child == GetProp(current, segments[n]) IN
       IF child.t = "undef" THEN [threw |-> FALSE, v |-> current]
       ELSE LET r == SetLoop(child, segments, n + 1, value)
                a == AssignProp(current, segments[n], r.v) IN
            IF r.threw THEN [threw |-> TRUE, v |-> current] ELSE a

setValueAtPath(root, path, value) == SetLoop(root, Segments(path), 1, value)

-----------------------------------------------------------------------------
(* Binary-content masker, src/src/utils.js *)

\* `predictions[${index}].bytesBase64Encoded`
ImagenPath(index) ==
  <<"predictions", "[", ToString(index), "]", ".", "bytesBase64Encoded">>

\* `candidates[${i}].content.parts[${j}].inlineData.data`
GeminiPath(ci, j) ==
  <<"candidates", "[", ToString(ci), "]", ".", "content", ".", "parts",
    "[", ToString(j), "]", ".", "inlineData", ".", "data">>

\* findImagenBase64Paths: one path per element of predictions
findImagenBase64Paths(o) ==
  LET predictions == GetProp(o, "predictions") IN
  IF Truthy(predictions) /\ IsArray(predictions)
  THEN [n \in 1..Len(predictions.a) |-> ImagenPath(n - 1)]
  ELSE <<>>

\* the paths one candidate contributes; reading candidate.content throws
\* when the candidate is null
CandidatePaths(candidate, ci) ==
  IF PropThrows(candidate) THEN [threw |-> TRUE, paths |-> <<>>]
  ELSE LET content == GetProp(candidate, "content") IN
       IF ~Truthy(content) THEN [threw |-> FALSE, paths |-> <<>>]
       ELSE LET parts == GetProp(content, "parts") IN
            IF Truthy(parts) /\ IsArray(parts)
            THEN [threw |-> FALSE,
                  paths |-> [n \in 1..Len(parts.a) |-> GeminiPath(ci, n - 1)]]
            ELSE [threw |-> FALSE, paths |-> <<>>]

RECURSIVE GeminiLoop(_, _)
GeminiLoop(candidates, n) ==
  IF n > Len(candidates) THEN [threw |-> FALSE, paths |-> <<>>]
  ELSE LET c == CandidatePaths(candidates[n], n - 1) IN
       IF c.threw THEN c
       ELSE LET rest == GeminiLoop(candidates, n + 1) IN
            [threw |-> rest.threw, paths |-> c.paths \o rest.paths]

\* findGeminiBase64Paths; [threw, paths]
findGeminiBase64Paths(o) ==
  LET candidates == GetProp(o, "candidates") IN
  IF Truthy(candidates) /\ IsArray(candidates)
  THEN GeminiLoop(candidates.a, 1)
  ELSE [threw |-> FALSE, paths |-> <<>>]

\* the vendor dispatch of maskBase64Content: Imagen rules when predictions
\* is an array, else Gemini rules when candidates is one; [threw, paths]
IdentifyPaths(masked) ==
  LET predictions == GetProp(masked, "predictions")
      candidates == GetProp(masked, "candidates") IN
  IF Truthy(predictions) /\ IsArray(predictions)
  THEN [threw |-> FALSE, paths |-> findImagenBase64Paths(masked)]
  ELSE IF Truthy(candidates) /\ IsArray(candidates)
       THEN findGeminiBase64Paths(masked)
       ELSE [threw |-> FALSE, paths |-> <<>>]

\* a value is masked when it is a string longer than this
MaskThresholdOff == 5 + 5
MaskThreshold == 100

\* Math.floor(length / 4 * 3 / 1024); the divisions by 4 and 1024 are exact
\* in binary floating point, so the quotient is that of 3 * length by 4096
MaskedKB(length) == (3 * length) \div (4 * 1024)

\* `[BASE64_DATA_MASKED: ~${...} KB]`
Placeholder(length) ==
  "[BASE64_DATA_MASKED: ~" \o ToString(MaskedKB(length)) \o " KB]"

ShouldMaskInclusive(v) == v.t = "str" /\ Len(v.s) >= MaskThreshold
ShouldMask(v) == v.t = "str" /\ Len(v.s) > MaskThreshold

\* paths.forEach of maskBase64Content from path n on; [threw, v] with v the
\* tree of the copy afterwards
RECURSIVE MaskLoop(_, _, _)
MaskLoop(masked, paths, n) ==
  IF n > Len(paths) THEN [threw |-> FALSE, v |-> masked]
  ELSE LET g == getValueAtPath(masked, paths[n]) IN
       IF g.threw THEN [threw |-> TRUE, v |-> masked]
       ELSE IF ShouldMask(g.v)
            THEN LET s == setValueAtPath(masked, paths[n],
                                         Str(Placeholder(Len(g.v.s)))) IN
                 IF s.threw THEN s ELSE MaskLoop(s.v, paths, n + 1)
            ELSE MaskLoop(masked, paths, n + 1)

\* the copy maskBase64Content works on: a new object in the store
DeepCopyAlias(h, r) == [heap |-> h, r |-> r]
DeepCopy(h, r) ==
  LET new == Len(h) + 1 IN [heap |-> Append(h, JsonRoundTrip(h[r])), r |-> new]

\* maskBase64Content(o) in store h; [threw, heap, ret]
maskBase64Content(h, o) ==
  IF ~Truthy(o) \/ ~TypeofObject(o)
  THEN [threw |-> FALSE, heap |-> h, ret |-> o]
  ELSE LET c == DeepCopy(h, o.r)
           p == IdentifyPaths(c.heap[c.r]) IN
       IF p.threw THEN [threw |-> TRUE, heap |-> c.heap, ret |-> Undef]
       ELSE LET m == MaskLoop(c.heap[c.r], p.paths, 1) IN
            [threw |-> m.threw,
             heap |-> [c.heap EXCEPT ![c.r] = m.v],
             ret |-> IF m.threw THEN Undef ELSE Ref(c.r)]

-----------------------------------------------------------------------------
(* Artifact writer, src/src/utils.js *)

\* what a reference or a primitive stands for
Deref(h, v) == IF v.t = "ref" THEN h[v.r] ELSE v

\* saveFile(filePath, data): the file holds data afterwards, whatever it held
saveFile(files, filePath, fileData) ==
  [p \in DOMAIN files \cup {filePath} |->
     IF p = filePath THEN fileData ELSE files[p]]

\* maskAndSaveJson(o, filePath) in store h and file system files;
\* [threw, heap, fs]
maskAndSaveJson(h, files, o, filePath) ==
  LET m == maskBase64Content(h, o) IN
  IF m.threw THEN [threw |-> TRUE, heap |-> m.heap, fs |-> files]
  ELSE [threw |-> FALSE, heap |-> m.heap,
        fs |-> saveFile(files, filePath, JsonStringify(Deref(m.heap, m.ret)))]

-----------------------------------------------------------------------------
(* Documents handed to the masker *)

\* n copies of the character c
RECURSIVE Repeat(_, _)
Repeat(c, n) ==
  IF n = 0 THEN ""
  ELSE IF n % 2 = 0 THEN LET h == Repeat(c, n \div 2) IN h \o h
       ELSE c \o Repeat(c, n - 1)

\* base64 text of a given length
Payload(n) == Repeat("A", n)

\* lengths at the threshold, just over it, and long enough for 1 KB
PayloadLens == {100, 101, 1366}

\* a long string that is no payload
LongText == Repeat("x", 101)

SeqsUpTo(S, n) == UNION {[1..k -> S] : k \in 0..n}

MaskPredElems ==
  {Null, EmptyObj}
    \cup {Obj([bytesBase64Encoded |-> Str(Payload(n))]) : n \in PayloadLens}
    \cup {Obj([images |-> Arr(<<Obj([bytesBase64Encoded |-> Str(Payload(101))])>>)])}

MaskPartElems ==
  {Null, Obj([text |-> Str(LongText)]), Obj([inlineData |-> Null])}
    \cup {Obj([inlineData |-> Obj([mimeType |-> Str("image/png"),
                                   data |-> Str(Payload(n))])]) : n \in PayloadLens}

MaskCandElems(maxParts) ==
  {Null, EmptyObj, Obj([content |-> Null]), Obj([content |-> Obj([parts |-> Null])])}
    \cup {Obj([content |-> Obj([parts |-> Arr(ps)])]) :
            ps \in SeqsUpTo(MaskPartElems, maxParts)}

\* Imagen-shaped, Gemini-shaped, both signatures at once, neither, and values
\* that are no object
MaskDocs ==
  {Obj([predictions |-> Arr(ps), modelVersion |-> Str(LongText)]) :
     ps \in SeqsUpTo(MaskPredElems, MaxPreds)}
    \cup {Obj([candidates |-> Arr(<<c>>), modelVersion |-> Str(LongText)]) :
            c \in MaskCandElems(MaxParts)}
    \cup {Obj([candidates |-> Arr(<<c1, c2>>)]) : c1, c2 \in MaskCandElems(1)}
    \cup {Obj([predictions |-> Arr(ps), candidates |-> Arr(<<c>>),
               modelVersion |-> Str(LongText)]) :
            ps \in SeqsUpTo(MaskPredElems \ {Null}, 1), c \in MaskCandElems(1)}
    \cup {EmptyObj, Obj([modelVersion |-> Str(LongText)]),
          Obj([predictions |-> Null, candidates |-> Null]),
          Obj([predictions |-> Str(Payload(101))]),
          Arr(<<Str(Payload(101))>>)}
    \cup {Null, Str("abc"), Num(0)}

\* where maskAndSaveJson is asked to write
JsonFile == "output/response.json"

NoResult == [success |-> Undef]

\* no answer of the service yet
NoResponse == [kind |-> "none"]

\* a name of process.env that is not set, and no agent (null)
Unset == ""
NoAgent == [agent |-> "none"]
NoError == [kind |-> "none"]

\* the names of process.env the program reads
EnvNames == {"HTTP_PROXY", "HTTPS_PROXY", "http_proxy", "https_proxy",
             "NO_PROXY", "no_proxy", "SYSTEM_PROXY"}

\* the defaults of the store, config.js lines 11-20
DefaultConfig ==
  [proxySettings |-> Null, lastOutputDir |-> "./images", lastJsonDir |-> "./output",
   defaultApi |-> "imagen", geminiApiKey |-> ""]

\* no function is called by itself
NoArgs == [op |-> "none"]
NoReturn == [threw |-> FALSE, v |-> Undef]
NoCall == args = NoArgs /\ returned = NoReturn

\* no count was asked for and nothing is written to the console
NoCount == totalRequested = Undef /\ logged = <<>>

\* fetchWithProxy is not looked into
NoFetch ==
  /\ env = [n \in EnvNames |-> Unset]
  /\ config = DefaultConfig
  /\ argv = [noProxy |-> FALSE, detectProxy |-> FALSE, debug |-> FALSE]
  /\ proxyAgent = NoAgent
  /\ fetchOptions = [agent |-> NoAgent]
  /\ requests = <<>>
  /\ error = NoError
  /\ original = [HTTP_PROXY |-> Unset, HTTPS_PROXY |-> Unset]

InitMask ==
  /\ pc = "idle"
  /\ \E d \in MaskDocs :
       /\ obj0 = d
       /\ IF d.t \in {"obj", "arr"}
          THEN heap = <<d>> /\ obj = Ref(1)
          ELSE heap = <<>> /\ obj = d
  /\ ret = Undef
  /\ ret2 = Undef
  /\ fs = [p \in {} |-> <<>>]
  /\ writes = <<>>
  /\ result = Undef
  /\ requestId = ""
  /\ savedImagePaths = <<>>
  /\ generatedCount = 0
  /\ blockedCount = 0
  /\ i = 0
  /\ out = NoResult
  /\ run = 0
  /\ first = NoResult
  /\ failing = {}
  /\ imageCount = 0
  /\ failed = {}
  /\ vendor = "none"
  /\ response = NoResponse
  /\ referenceImages = <<>>
  /\ sent = 0
  /\ NoFetch
  /\ NoCall
  /\ NoCount

\* a caller calls maskBase64Content(obj)
CallMask ==
  /\ pc = "idle"
  /\ LET m == maskBase64Content(heap, obj) IN
       /\ heap' = m.heap
       /\ ret' = m.ret
       /\ pc' = IF m.threw THEN "threw" ELSE "masked"
  /\ UNCHANGED <<obj, obj0, ret2, fs, writes, result, requestId,
                 savedImagePaths, generatedCount, blockedCount, i, out, run, first>>
  /\ UNCHANGED <<failed, extVars>>

\* the caller masks the document it got back once more
CallMaskAgain ==
  /\ pc = "masked"
  /\ LET m == maskBase64Content(heap, ret) IN
       /\ heap' = m.heap
       /\ ret2' = m.ret
       /\ pc' = IF m.threw THEN "threw2" ELSE "remasked"
  /\ UNCHANGED <<obj, obj0, ret, fs, writes, result, requestId,
                 savedImagePaths, generatedCount, blockedCount, i, out, run, first>>
  /\ UNCHANGED <<failed, extVars>>

\* a caller calls maskAndSaveJson(obj, JsonFile)
CallMaskAndSave ==
  /\ pc = "idle"
  /\ LET m == maskAndSaveJson(heap, fs, obj, JsonFile) IN
       /\ heap' = m.heap
       /\ fs' = m.fs
       /\ pc' = IF m.threw THEN "savethrew" ELSE "saved"
  /\ UNCHANGED <<obj, obj0, ret, ret2, writes, result, requestId,
                 savedImagePaths, generatedCount, blockedCount, i, out, run, first>>
  /\ UNCHANGED <<failed, extVars>>

NextMask == CallMask \/ CallMaskAgain \/ CallMaskAndSave

SpecMask == InitMask /\ [][NextMask]_vars

-----------------------------------------------------------------------------
(* String operations the Imagen generator uses *)

\* the k-th character of s
CharAt(s, k) == SubSeq(s, k, k)

\* String.prototype.includes
Includes(s, sub) ==
  \E k \in 1..(Len(s) - Len(sub) + 1) : SubSeq(s, k, k + Len(sub) - 1) = sub

\* sub occurs in s at position k
OccursAt(s, sub, k) ==
  k >= 1 /\ k + Len(sub) - 1 <= Len(s) /\ SubSeq(s, k, k + Len(sub) - 1) = sub

IsDigit(c) == c \in {"0", "1", "2", "3", "4", "5", "6", "7", "8", "9"}
DigitValue(c) == CHOOSE d \in 0..9 : ToString(d) = c

\* parseInt(s, 10) of a string of digits
RECURSIVE parseInt(_)
parseInt(s) ==
  IF s = "" THEN 0
  ELSE 10 * parseInt(SubSeq(s, 1, Len(s) - 1)) + DigitValue(CharAt(s, Len(s)))

\* the last position of the run of digits that starts at k (k - 1 if none)
RECURSIVE DigitRunEnd(_, _)
DigitRunEnd(s, k) ==
  IF k <= Len(s) /\ IsDigit(CharAt(s, k)) THEN DigitRunEnd(s, k + 1) ELSE k - 1

\* /filtered out (\d+) generated images/ matches s at position k
FilteredMatchAt(s, k) ==
  LET d == k + Len("filtered out ")
      e == DigitRunEnd(s, d) IN
  /\ OccursAt(s, "filtered out ", k)
  /\ e >= d
  /\ OccursAt(s, " generated images", e + 1)

\* reason.match(/filtered out (\d+) generated images/): [matched, group]
\* with group the text of (\d+) in the leftmost match
FilteredMatch(s) ==
  IF \E k \in 1..Len(s) : FilteredMatchAt(s, k)
  THEN LET k == CHOOSE j \in 1..Len(s) :
                  /\ FilteredMatchAt(s, j)
                  /\ \A m \in 1..(j - 1) : ~FilteredMatchAt(s, m)
           d == k + Len("filtered out ") IN
       [matched |-> TRUE, group |-> SubSeq(s, d, DigitRunEnd(s, d))]
  ELSE [matched |-> FALSE, group |-> ""]

\* s.split(sep) for a one-character separator
RECURSIVE SplitLoop(_, _, _)
SplitLoop(s, sep, cur) ==
  IF s = "" THEN <<cur>>
  ELSE IF CharAt(s, 1) = sep
       THEN <<cur>> \o SplitLoop(SubSeq(s, 2, Len(s)), sep, "")
       ELSE SplitLoop(SubSeq(s, 2, Len(s)), sep, cur \o CharAt(s, 1))
Split(s, sep) == SplitLoop(s, sep, "")

\* path.join(dir, name) for a directory already in normal form
PathJoin(dir, name) == dir \o "/" \o name

Base64Alphabet == "ABCDEFGHIJKLMNOPQRSTUVWXYZabcdefghijklmnopqrstuvwxyz0123456789+/"
\* the decoder also takes the URL-safe '-' for '+' and '_' for '/'
UrlSafe(c) == IF c = "-" THEN "+" ELSE IF c = "_" THEN "/" ELSE c
IsBase64Char(c) == \E k \in 1..64 : CharAt(Base64Alphabet, k) = UrlSafe(c)
Base64Value(c) == (CHOOSE k \in 1..64 : CharAt(Base64Alphabet, k) = UrlSafe(c)) - 1

\* the part of s before its first '='
BeforePadding(s) ==
  IF \E k \in 1..Len(s) : CharAt(s, k) = "="
  THEN SubSeq(s, 1, (CHOOSE k \in 1..Len(s) :
                        /\ CharAt(s, k) = "="
                        /\ \A j \in 1..(k - 1) : CharAt(s, j) # "=") - 1)
  ELSE s

\* the 6-bit values of the characters of s, those outside the alphabet
\* skipped (computed by halves)
RECURSIVE Base64Values(_)
Base64Values(s) ==
  IF s = "" THEN <<>>
  ELSE IF Len(s) = 1
       THEN IF IsBase64Char(s) THEN <<Base64Value(s)>> ELSE <<>>
       ELSE Base64Values(SubSeq(s, 1, Len(s) \div 2))
              \o Base64Values(SubSeq(s, Len(s) \div 2 + 1, Len(s)))

\* the values Buffer.from(data, 'base64') decodes: it stops at the first '='
Base64Chars(s) == Base64Values(BeforePadding(s))

\* the bytes of a sequence of 6-bit values: three per four, two for a last
\* group of three, one for a last group of two
Base64BytesWhole(v) ==
  [b \in 1..(3 * (Len(v) \div 4)) |->
     LET g == 4 * ((b - 1) \div 3) IN
     CASE (b - 1) % 3 = 0 -> v[g + 1] * 4 + v[g + 2] \div 16
       [] (b - 1) % 3 = 1 -> (v[g + 2] % 16) * 16 + v[g + 3] \div 4
       [] OTHER -> (v[g + 3] % 4) * 64 + v[g + 4]]
Base64Bytes(v) ==
  [b \in 1..((Len(v) * 6) \div 8) |->
     LET g == 4 * ((b - 1) \div 3) IN
     CASE (b - 1) % 3 = 0 -> v[g + 1] * 4 + v[g + 2] \div 16
       [] (b - 1) % 3 = 1 -> (v[g + 2] % 16) * 16 + v[g + 3] \div 4
       [] OTHER -> (v[g + 3] % 4) * 64 + v[g + 4]]

\* Buffer.from(data, 'base64')
BufferFromBase64(data) == Base64Bytes(Base64Chars(data))

\* saveFile(filePath, data, { isBase64: true })
saveFileBase64(files, filePath, data) ==
  saveFile(files, filePath, BufferFromBase64(data))

-----------------------------------------------------------------------------
(* Imagen generator: generateImagesWithImagen from the parsed response on *)

\* the defaults of the options
outputDir == "images"
jsonDir == "output"
DefaultCount == 1

\* the request document (the parameters that do not bear on the response
\* handling are left out)
requestData ==
  Obj([instances |-> Arr(<<Obj([prompt |-> Str("a cat")])>>),
       parameters |-> Obj([sampleCount |-> Num(DefaultCount)])])

\* `imagen_${Date.now()}`
RequestIdAt(now) == "imagen_" \o ToString(now)

requestFilename(rid) == PathJoin(jsonDir, rid \o "_request.json")
responseFilename(rid) == PathJoin(jsonDir, rid \o "_response.json")

\* the text the first pass looks for to tell that every image was filtered
AllFilteredSentinel == "Unable to show generated images. All images were filtered out"

\* the number the first pass adds for one reason
filteredCountOne(reason) == IF FilteredMatch(reason).matched THEN 1 ELSE 0
filteredCount(reason) ==
  LET m == FilteredMatch(reason) IN
  IF m.matched /\ m.group # "" THEN parseInt(m.group) ELSE 0

\* the first pass from prediction n on, blocked being the count so far;
\* [threw, allFiltered, details, blockedCount]
RECURSIVE ScanLoop(_, _, _)
ScanLoop(predictions, n, blocked) ==
  IF n > Len(predictions)
  THEN [threw |-> FALSE, allFiltered |-> FALSE, details |-> Undef,
        blockedCount |-> blocked]
  ELSE LET prediction == predictions[n] IN
       IF PropThrows(prediction)
       THEN [threw |-> TRUE, allFiltered |-> FALSE, details |-> Undef,
             blockedCount |-> blocked]
       ELSE LET reason == GetProp(prediction, "raiFilteredReason") IN
            IF ~Truthy(reason) THEN ScanLoop(predictions, n + 1, blocked)
            ELSE IF reason.t # "str"
                 THEN [threw |-> TRUE, allFiltered |-> FALSE, details |-> Undef,
                       blockedCount |-> blocked]
            ELSE IF Includes(reason.s, AllFilteredSentinel)
                 THEN [threw |-> FALSE, allFiltered |-> TRUE, details |-> reason,
                       blockedCount |-> blocked]
            ELSE ScanLoop(predictions, n + 1, blocked + filteredCount(reason.s))

\* the first pass over all the predictions
FilterScanFirstOnly(predictions) == ScanLoop(SubSeq(predictions, 1, 1), 1, 0)
FilterScan(predictions) == ScanLoop(predictions, 1, 0)

\* `${requestId}_${i}_${index}.png`
ImagesFilenameNoPrediction(rid, n, index) ==
  rid \o "_" \o ToString(index) \o ".png"
ImagesFilename(rid, n, index) ==
  rid \o "_" \o ToString(n) \o "_" \o ToString(index) \o ".png"

\* imageType.split('/')[1] || 'png'
ExtOf(imageType) ==
  LET parts == Split(imageType, "/") IN
  IF Len(parts) >= 2 /\ parts[2] # "" THEN parts[2] ELSE "png"

\* `${requestId}_${i}.${ext}`
DirectFilenameNoIndex(rid, n, ext) == rid \o "." \o ext
DirectFilename(rid, n, ext) == rid \o "_" \o ToString(n) \o "." \o ext

\* fs.writeFileSync(filePath, ...) throws at the paths of bad
WriteThrows(bad, filePath) == filePath \in bad

\* prediction.images.forEach from element m on, for prediction n;
\* st = [threw, fs, paths, count, writes, bad]; a write that throws ends the
\* loop with what was saved before it
RECURSIVE ImagesLoop(_, _, _, _, _)
ImagesLoop(st, rid, n, images, m) ==
  IF m > Len(images) THEN st
  ELSE LET img == images[m] IN
       IF PropThrows(img) THEN [st EXCEPT !.threw = TRUE]
       ELSE LET bytes == GetProp(img, "bytesBase64Encoded") IN
            IF Truthy(bytes)
            THEN LET filename == PathJoin(outputDir, ImagesFilename(rid, n, m - 1)) IN
                 IF WriteThrows(st.bad, filename) THEN [st EXCEPT !.threw = TRUE]
                 ELSE ImagesLoop([st EXCEPT
                                    !.fs = saveFileBase64(st.fs, filename, bytes.s),
                                    !.paths = Append(st.paths, filename),
                                    !.count = st.count + 1,
                                    !.writes = Append(st.writes, filename)],
                                 rid, n, images, m + 1)
            ELSE ImagesLoop(st, rid, n, images, m + 1)

\* one turn of the second pass, for prediction n (counted from 0)
ExtractPrediction(st, rid, prediction, n) ==
  IF PropThrows(prediction) THEN [st EXCEPT !.threw = TRUE]
  ELSE IF Truthy(GetProp(prediction, "raiFilteredReason")) THEN st
  ELSE LET images == GetProp(prediction, "images")
           bytes == GetProp(prediction, "bytesBase64Encoded")
           mimeType == GetProp(prediction, "mimeType") IN
       IF Truthy(images) /\ GetProp(images, "length").t = "num"
            /\ GetProp(images, "length").n > 0
       THEN IF images.t = "arr" THEN ImagesLoop(st, rid, n, images.a, 1)
            ELSE [st EXCEPT !.threw = TRUE]
       ELSE IF Truthy(bytes)
            THEN LET imageType == IF Truthy(mimeType) THEN mimeType.s ELSE "image/png"
                     filename == PathJoin(outputDir,
                                          DirectFilename(rid, n, ExtOf(imageType))) IN
                 IF WriteThrows(st.bad, filename) THEN [st EXCEPT !.threw = TRUE]
                 ELSE [st EXCEPT
                         !.fs = saveFileBase64(st.fs, filename, bytes.s),
                         !.paths = Append(st.paths, filename),
                         !.count = st.count + 1,
                         !.writes = Append(st.writes, filename)]
            ELSE st

\* the records generateImagesWithImagen returns
BlockedResult(details) ==
  [success |-> Bool(FALSE), error |-> Str("Responsible AI filtered the content"),
   blocked |-> Bool(TRUE), raiFiltered |-> Bool(TRUE), details |-> details]
NoPredictionsResult(rid) ==
  [success |-> Bool(FALSE), error |-> Str("No predictions found in response"),
   jsonFiles |-> Obj([request |-> Str(requestFilename(rid)),
                      response |-> Str(responseFilename(rid))])]
\* (the catch of the whole function: error.message of what was thrown)
CaughtResult == [success |-> Bool(FALSE), error |-> Str("TypeError")]
SuccessResult(paths, totalGenerated, totalBlocked) ==
  [success |-> Bool(TRUE), outputDir |-> Str(outputDir),
   images |-> Arr([n \in 1..Len(paths) |-> Str(paths[n])]),
   generated |-> Num(totalGenerated), blocked |-> Num(totalBlocked)]
NothingSavedResult(totalBlocked) ==
  [success |-> Bool(FALSE), error |-> Str("No images were saved"),
   blocked |-> Bool(totalBlocked > 0), blockedCount |-> Num(totalBlocked)]

\* lines 238 and 249-250: totalAccountedFor < totalRequested, totalRequested
\* being options.count; a number compared with undefined gives false
Shortfall(totalGenerated, totalBlocked, requested) ==
  requested.t = "num" /\ totalGenerated + totalBlocked < requested.n

\* line 251: the note of the accounting step
DiscrepancyNote == "requested more images than were accounted for"

\* the return at the end of the second pass
OutcomeByCounts(paths, totalGenerated, totalBlocked) ==
  IF totalGenerated + totalBlocked > 0
  THEN SuccessResult(paths, totalGenerated, totalBlocked)
  ELSE NothingSavedResult(totalBlocked)
Outcome(paths, totalGenerated, totalBlocked) ==
  IF Len(paths) > 0
  THEN SuccessResult(paths, totalGenerated, totalBlocked)
  ELSE NothingSavedResult(totalBlocked)

\* result && result.predictions && result.predictions.length > 0
HasPredictions(r) ==
  IF ~Truthy(r) THEN FALSE
  ELSE LET predictions == GetProp(r, "predictions") IN
       IF ~Truthy(predictions) THEN FALSE
       ELSE LET length == GetProp(predictions, "length") IN
            length.t = "num" /\ length.n > 0

-----------------------------------------------------------------------------
(* Imagen responses *)

\* what the service says when it filtered every image
AllFilteredReason ==
  "Unable to show generated images. All images were filtered out because they violated Google's Responsible AI practices."
\* a reason that says the same without the opening sentence
AllFilteredShortReason == "All images were filtered out by the safety filter."
\* what the service says when it filtered n of the images
SomeFilteredReason(n) ==
  "Unable to show some images: the safety filter filtered out " \o ToString(n)
    \o " generated images."
\* a reason that gives no number
OtherReason == "Some images were filtered."

\* payloads: two short images and one of more than 100 characters
PngBytes == "iVBORw0KGgo="
JpegBytes == "/9j/4AA="
BigBytes == Payload(104)

Reasons ==
  {AllFilteredReason, AllFilteredShortReason, SomeFilteredReason(1),
   SomeFilteredReason(2), OtherReason}

ImagenPredElems ==
  {Obj([raiFilteredReason |-> Str(r)]) : r \in Reasons}
    \cup {Obj([raiFilteredReason |-> Str(SomeFilteredReason(1)),
               bytesBase64Encoded |-> Str(PngBytes), mimeType |-> Str("image/png")]),
          Obj([raiFilteredReason |-> Str(""),
               bytesBase64Encoded |-> Str(PngBytes), mimeType |-> Str("image/png")]),
          Obj([bytesBase64Encoded |-> Str(PngBytes), mimeType |-> Str("image/png")]),
          Obj([bytesBase64Encoded |-> Str(JpegBytes), mimeType |-> Str("image/jpeg")]),
          Obj([bytesBase64Encoded |-> Str(PngBytes)]),
          Obj([bytesBase64Encoded |-> Str(PngBytes), mimeType |-> Str("png")]),
          Obj([images |-> Arr(<<Obj([bytesBase64Encoded |-> Str(PngBytes)]), EmptyObj,
                                Obj([bytesBase64Encoded |-> Str(BigBytes)])>>)]),
          Obj([images |-> Arr(<<>>), bytesBase64Encoded |-> Str(JpegBytes),
               mimeType |-> Str("image/jpeg")]),
          EmptyObj}

ImagenResponses ==
  {Obj([predictions |-> Arr(ps)]) : ps \in SeqsUpTo(ImagenPredElems, MaxPreds)}
    \cup {Null, EmptyObj, Obj([modelVersion |-> Str("imagen-3.0-generate-002")])}

\* the values Date.now() takes
Clock == {1, 2}

\* options.count: 1 to 4 on the command line (index.js lines 112-118), or
\* not given by the caller of the generator
RequestedCounts == {Undef} \cup {Num(n) : n \in 1..4}

\* the state when the response has arrived with an OK status and its body
\* has been parsed
ImagenReceived ==
  /\ pc = "received"
  /\ result \in ImagenResponses
  /\ requestId \in {RequestIdAt(now) : now \in Clock}
  /\ heap = <<result>>
  /\ obj = Ref(1)
  /\ obj0 = result
  /\ ret = Undef
  /\ ret2 = Undef
  /\ fs = [p \in {} |-> <<>>]
  /\ writes = <<>>
  /\ savedImagePaths = <<>>
  /\ generatedCount = 0
  /\ blockedCount = 0
  /\ i = 0
  /\ out = NoResult
  /\ run = 1
  /\ first = NoResult
  /\ failing = {}
  /\ imageCount = 0
  /\ failed = {}
  /\ vendor = "imagen"
  /\ response = NoResponse
  /\ referenceImages = <<>>
  /\ sent = 0
  /\ NoFetch
  /\ NoCall
  /\ logged = <<>>

\* the command line gave no count
InitImagen == ImagenReceived /\ totalRequested = Num(DefaultCount)

\* the generator is called with any count, or with none
InitAccount == ImagenReceived /\ totalRequested \in RequestedCounts

\* lines 137-155: the directories, the request file, the masked response file
ImagenSaveJson ==
  /\ pc = "received"
  /\ LET withRequest == saveFile(fs, requestFilename(requestId),
                                 JsonStringify(requestData))
         m == maskAndSaveJson(heap, withRequest, obj, responseFilename(requestId)) IN
       /\ IF WriteThrows(failing, requestFilename(requestId))
          THEN /\ heap' = heap /\ fs' = fs /\ out' = CaughtResult /\ pc' = "done"
               /\ failed' = failed \cup {"write"}
          ELSE /\ heap' = m.heap
               /\ IF m.threw \/ WriteThrows(failing, responseFilename(requestId))
                  THEN /\ fs' = withRequest /\ out' = CaughtResult /\ pc' = "done"
                       /\ failed' = failed \cup {IF m.threw THEN "mask" ELSE "write"}
                  ELSE /\ fs' = m.fs /\ out' = out /\ pc' = "scan"
                       /\ failed' = failed
  /\ UNCHANGED <<obj, obj0, ret, ret2, writes, result, requestId, savedImagePaths,
                 generatedCount, blockedCount, i, run, first>>
  /\ UNCHANGED extVars

\* lines 158-196 and 271-274: the test for predictions and the first pass
ImagenFilterScan ==
  /\ pc = "scan"
  /\ IF ~HasPredictions(result)
     THEN /\ out' = NoPredictionsResult(requestId)
          /\ pc' = "done"
          /\ failed' = failed \cup {"predictions"}
          /\ UNCHANGED blockedCount
     ELSE LET predictions == GetProp(result, "predictions")
              scan == FilterScan(predictions.a) IN
          IF scan.threw
          THEN /\ out' = CaughtResult /\ pc' = "done"
               /\ failed' = failed \cup {"scan"}
               /\ UNCHANGED blockedCount
          ELSE IF scan.allFiltered
               THEN /\ out' = BlockedResult(scan.details)
                    /\ pc' = "done"
                    /\ failed' = failed \cup {"block"}
                    /\ UNCHANGED blockedCount
               ELSE /\ blockedCount' = scan.blockedCount
                    /\ pc' = "extract"
                    /\ UNCHANGED <<out, failed>>
  /\ i' = 0
  /\ UNCHANGED <<heap, obj, obj0, ret, ret2, fs, writes, result, requestId,
                 savedImagePaths, generatedCount, run, first>>
  /\ UNCHANGED extVars

\* lines 199-235: one turn of the second pass
ImagenExtract ==
  /\ pc = "extract"
  /\ i < Len(GetProp(result, "predictions").a)
  /\ LET st == ExtractPrediction(
                 [threw |-> FALSE, fs |-> fs, paths |-> savedImagePaths,
                  count |-> generatedCount, writes |-> writes, bad |-> failing],
                 requestId, GetProp(result, "predictions").a[i + 1], i) IN
       /\ fs' = st.fs
       /\ savedImagePaths' = st.paths
       /\ generatedCount' = st.count
       /\ writes' = st.writes
       /\ IF st.threw
          THEN /\ out' = CaughtResult /\ pc' = "done"
               /\ failed' = failed \cup {"write"}
          ELSE out' = out /\ pc' = "extract" /\ failed' = failed
  /\ i' = i + 1
  /\ UNCHANGED <<heap, obj, obj0, ret, ret2, result, requestId, blockedCount,
                 run, first>>
  /\ UNCHANGED extVars

\* lines 237-270: the summary and the return
ImagenOutcome ==
  /\ pc = "extract"
  /\ i = Len(GetProp(result, "predictions").a)
  /\ logged' = IF Shortfall(generatedCount, blockedCount, totalRequested)
               THEN Append(logged, DiscrepancyNote)
               ELSE logged
  /\ out' = Outcome(savedImagePaths, generatedCount, blockedCount)
  /\ pc' = "done"
  /\ first' = IF run = 1
              THEN [success |-> out'.success, images |-> savedImagePaths,
                    writes |-> writes, fs |-> fs]
              ELSE first
  /\ UNCHANGED <<heap, obj, obj0, ret, ret2, fs, writes, result, requestId,
                 savedImagePaths, generatedCount, blockedCount, i, run>>
  /\ UNCHANGED <<failed, failing, imageCount, vendor, response, referenceImages,
                 sent, proxyVars, callVars, totalRequested>>

\* the second pass is run once more over the same response with the same
\* requestId, the files of the first run being in place
ExtractAgain ==
  /\ pc = "done"
  /\ run = 1
  /\ out.success = Bool(TRUE)
  /\ run' = 2
  /\ pc' = "extract"
  /\ i' = 0
  /\ savedImagePaths' = <<>>
  /\ generatedCount' = 0
  /\ writes' = <<>>
  /\ out' = NoResult
  /\ UNCHANGED <<heap, obj, obj0, ret, ret2, fs, result, requestId, blockedCount,
                 first>>
  /\ UNCHANGED <<failed, extVars>>

NextImagen ==
  ImagenSaveJson \/ ImagenFilterScan \/ ImagenExtract \/ ImagenOutcome \/ ExtractAgain

SpecImagen == InitImagen /\ [][NextImagen]_vars

\* the same steps, the count of the options being any
SpecAccount == InitAccount /\ [][NextImagen]_vars

-----------------------------------------------------------------------------
(* Gemini normalizer: processGeminiResponse, src/src/auth.js *)

\* the finish reason of a response blocked for safety
ImageSafety == "IMAGE_SAFETY"

\* `gemini_text_to_image_${timestamp}`
GeminiRequestIdAt(now) == "gemini_text_to_image_" \o ToString(now)

\* result.candidates && result.candidates.length > 0
HasCandidates(r) ==
  LET candidates == GetProp(r, "candidates") IN
  IF ~Truthy(candidates) THEN FALSE
  ELSE LET length == GetProp(candidates, "length") IN
       length.t = "num" /\ length.n > 0

\* the safety test; [threw, blocked]
IsSafetyBlockAny(r) ==
  [threw |-> FALSE,
   blocked |-> /\ HasCandidates(r)
               /\ \E c \in {GetProp(GetProp(r, "candidates"), ToString(n)) :
                              n \in 0..MaxIndex} :
                    ~PropThrows(c) /\ GetProp(c, "finishReason") = Str(ImageSafety)]
IsSafetyBlock(r) ==
  IF ~HasCandidates(r) THEN [threw |-> FALSE, blocked |-> FALSE]
  ELSE LET candidate == GetProp(GetProp(r, "candidates"), "0") IN
       IF PropThrows(candidate) THEN [threw |-> TRUE, blocked |-> FALSE]
       ELSE [threw |-> FALSE,
             blocked |-> GetProp(candidate, "finishReason") = Str(ImageSafety)]

\* the parts the extraction loop walks: those of candidates[0].content.parts,
\* none when candidates, content or parts is missing
GeminiParts(r) ==
  IF ~HasCandidates(r) THEN <<>>
  ELSE LET candidate == GetProp(GetProp(r, "candidates"), "0")
           content == GetProp(candidate, "content") IN
       IF ~Truthy(content) THEN <<>>
       ELSE LET parts == GetProp(content, "parts") IN
            IF Truthy(parts) /\ parts.t = "arr" THEN parts.a ELSE <<>>

\* imageType.split("/")[1] inside a template string
GeminiExt(imageType) ==
  LET pieces == Split(imageType, "/") IN
  IF Len(pieces) >= 2 THEN pieces[2] ELSE "undefined"

\* `${requestId}_generated_${imageCount}.${ext}`
GeminiFilenameByIndex(rid, index, count, ext) ==
  rid \o "_generated_" \o ToString(index + 1) \o "." \o ext
GeminiFilename(rid, index, count, ext) ==
  rid \o "_generated_" \o ToString(count) \o "." \o ext

\* one turn of the loop over the parts, for the part of index n;
\* st = [threw, fs, paths, count, writes, bad]
GeminiExtractPart(st, rid, part, n) ==
  IF PropThrows(part) THEN [st EXCEPT !.threw = TRUE]
  ELSE LET inlineData == GetProp(part, "inlineData") IN
       IF ~Truthy(inlineData) \/ ~Truthy(GetProp(inlineData, "data")) THEN st
       ELSE LET imageData == GetProp(inlineData, "data")
                mimeType == GetProp(inlineData, "mimeType")
                imageType == IF Truthy(mimeType) THEN mimeType ELSE Str("image/png")
                counted == [st EXCEPT !.count = st.count + 1] IN
            IF imageType.t # "str" \/ imageData.t # "str"
            THEN [counted EXCEPT !.threw = TRUE]
            ELSE LET imageFilename ==
                       PathJoin(outputDir,
                                GeminiFilename(rid, n, counted.count,
                                               GeminiExt(imageType.s))) IN
                 IF WriteThrows(st.bad, imageFilename)
                 THEN [counted EXCEPT !.threw = TRUE]
                 ELSE [counted EXCEPT
                         !.fs = saveFileBase64(st.fs, imageFilename, imageData.s),
                         !.paths = Append(st.paths, imageFilename),
                         !.writes = Append(st.writes, imageFilename)]

\* the records processGeminiResponse returns
GeminiSafetyResult(rid) ==
  [success |-> Bool(FALSE),
   error |-> Str("Image generation was blocked for safety reasons"),
   safetyBlock |-> Bool(TRUE), responseFile |-> Str(responseFilename(rid))]
GeminiWarningResult(paths) ==
  [success |-> Bool(TRUE), outputDir |-> Str(outputDir),
   images |-> Arr([n \in 1..Len(paths) |-> Str(paths[n])]),
   warning |-> Str("Some parts of the response could not be processed")]
GeminiSuccessResultStrict(paths, rid) ==
  IF paths = <<>>
  THEN [success |-> Bool(FALSE), error |-> Str("No images were saved")]
  ELSE [success |-> Bool(TRUE), outputDir |-> Str(outputDir), jsonDir |-> Str(jsonDir),
        images |-> Arr([n \in 1..Len(paths) |-> Str(paths[n])]),
        jsonFiles |-> Obj([response |-> Str(responseFilename(rid))])]
GeminiSuccessResult(paths, rid) ==
  [success |-> Bool(TRUE), outputDir |-> Str(outputDir), jsonDir |-> Str(jsonDir),
   images |-> Arr([n \in 1..Len(paths) |-> Str(paths[n])]),
   jsonFiles |-> Obj([response |-> Str(responseFilename(rid))])]
\* what generateImagesWithGemini returns when processGeminiResponse throws
GeminiCaughtResult == [success |-> Bool(FALSE), error |-> Str("TypeError")]

-----------------------------------------------------------------------------
(* Gemini responses *)

\* a part that carries an image
GeminiPart(mimeType, data) ==
  Obj([inlineData |-> Obj([mimeType |-> Str(mimeType), data |-> Str(data)])])

GeminiPartElems ==
  {Obj([text |-> Str("Here is the image.")]),
   Obj([inlineData |-> Obj([mimeType |-> Str("image/png"), data |-> Str(PngBytes)])]),
   Obj([inlineData |-> Obj([mimeType |-> Str("image/jpeg"), data |-> Str(JpegBytes)])]),
   Obj([inlineData |-> Obj([mimeType |-> Str("image/png"), data |-> Str(BigBytes)])]),
   Obj([inlineData |-> Obj([data |-> Str(PngBytes)])]),
   Obj([inlineData |-> Obj([mimeType |-> Str("image/png"), data |-> Str("")])])}

GeminiContents ==
  {Obj([parts |-> Arr(ps)]) : ps \in SeqsUpTo(GeminiPartElems, MaxParts)}
    \cup {EmptyObj, Null, Obj([parts |-> Null])}

\* the first candidate: with or without a finish reason, with or without content
GeminiFirstCandidates ==
  {Obj([content |-> c]) : c \in GeminiContents}
    \cup {Obj([finishReason |-> Str(f), content |-> c]) :
            f \in {"STOP", ImageSafety}, c \in GeminiContents}
    \cup {EmptyObj, Obj([finishReason |-> Str("STOP")]),
          Obj([finishReason |-> Str(ImageSafety)])}

\* the candidates after the first
GeminiLaterCandidates ==
  {Obj([finishReason |-> Str(f),
        content |-> Obj([parts |-> Arr(<<Obj([inlineData |->
                      Obj([mimeType |-> Str("image/png"),
                           data |-> Str(PngBytes)])])>>)])]) :
     f \in {"STOP", ImageSafety}}

GeminiResponses ==
  {Obj([candidates |-> Arr(<<c>>)]) : c \in GeminiFirstCandidates}
    \cup {Obj([candidates |-> Arr(<<c, d>>)]) :
            c \in GeminiFirstCandidates, d \in GeminiLaterCandidates}
    \cup {EmptyObj, Obj([candidates |-> Arr(<<>>)]),
          Obj([modelVersion |-> Str("gemini-2.0-flash-exp-image-generation")])}

\* the state when generateImagesWithGemini hands the parsed response to
\* processGeminiResponse
InitGemini ==
  /\ pc = "gemini"
  /\ result \in GeminiResponses
  /\ requestId \in {GeminiRequestIdAt(now) : now \in Clock}
  /\ heap = <<result>>
  /\ obj = Ref(1)
  /\ obj0 = result
  /\ ret = Undef
  /\ ret2 = Undef
  /\ fs = [p \in {} |-> <<>>]
  /\ writes = <<>>
  /\ savedImagePaths = <<>>
  /\ generatedCount = 0
  /\ blockedCount = 0
  /\ i = 0
  /\ out = NoResult
  /\ run = 1
  /\ first = NoResult
  /\ failing = {}
  /\ imageCount = 0
  /\ failed = {}
  /\ vendor = "gemini"
  /\ response = NoResponse
  /\ referenceImages = <<>>
  /\ sent = 0
  /\ NoFetch
  /\ NoCall
  /\ NoCount

\* processGeminiResponse without its first two lines: the response is
\* inspected, the response file is not written
GeminiSkipResponseFile ==
  /\ pc = "gemini"
  /\ pc' = "safety"
  /\ UNCHANGED <<heap, fs, out, failed>>
  /\ UNCHANGED <<obj, obj0, ret, ret2, writes, result, requestId, savedImagePaths,
                 generatedCount, blockedCount, i, run, first, failing, imageCount,
                 invVars>>

\* lines 366-367: the masked response file
GeminiSaveResponse ==
  /\ pc = "gemini"
  /\ \E m \in {maskAndSaveJson(heap, fs, obj, responseFilename(requestId))} :
       /\ heap' = m.heap
       /\ IF m.threw \/ WriteThrows(failing, responseFilename(requestId))
          THEN /\ fs' = fs /\ out' = GeminiCaughtResult /\ pc' = "done"
               /\ failed' = failed \cup {IF m.threw THEN "mask" ELSE "write"}
          ELSE fs' = m.fs /\ out' = out /\ pc' = "safety" /\ failed' = failed
  /\ UNCHANGED <<obj, obj0, ret, ret2, writes, result, requestId, savedImagePaths,
                 generatedCount, blockedCount, i, run, first, failing, imageCount,
                 invVars>>

\* lines 369-392: the safety test and the way to the parts
GeminiSafetyCheck ==
  /\ pc = "safety"
  /\ LET b == IsSafetyBlock(result) IN
       IF b.threw
       THEN out' = GeminiCaughtResult /\ pc' = "done" /\ failed' = failed \cup {"scan"}
       ELSE IF b.blocked
            THEN /\ out' = GeminiSafetyResult(requestId) /\ pc' = "done"
                 /\ failed' = failed \cup {"block"}
            ELSE out' = out /\ pc' = "parts" /\ failed' = failed
  /\ i' = 0
  /\ imageCount' = 0
  /\ UNCHANGED <<heap, obj, obj0, ret, ret2, fs, writes, result, requestId,
                 savedImagePaths, generatedCount, blockedCount, run, first, failing,
                 invVars>>

\* lines 393-408 and 419-427: one turn of the loop over the parts
GeminiExtract ==
  /\ pc = "parts"
  /\ i < Len(GeminiParts(result))
  /\ \E st \in {GeminiExtractPart(
                   [threw |-> FALSE, fs |-> fs, paths |-> savedImagePaths,
                    count |-> imageCount, writes |-> writes, bad |-> failing],
                   requestId, GeminiParts(result)[i + 1], i)} :
       /\ fs' = st.fs
       /\ savedImagePaths' = st.paths
       /\ imageCount' = st.count
       /\ writes' = st.writes
       /\ IF st.threw
          THEN /\ out' = GeminiWarningResult(savedImagePaths) /\ pc' = "done"
               /\ failed' = failed \cup {"write"}
          ELSE out' = out /\ pc' = "parts" /\ failed' = failed
  /\ i' = i + 1
  /\ UNCHANGED <<heap, obj, obj0, ret, ret2, result, requestId, generatedCount,
                 blockedCount, run, first, failing, invVars>>

\* lines 410-437: the warnings and the return
GeminiReturn ==
  /\ pc = "parts"
  /\ i = Len(GeminiParts(result))
  /\ out' = GeminiSuccessResult(savedImagePaths, requestId)
  /\ pc' = "done"
  /\ UNCHANGED <<heap, obj, obj0, ret, ret2, fs, writes, result, requestId,
                 savedImagePaths, generatedCount, blockedCount, i, run, first,
                 failing, imageCount, failed, invVars>>

NextGemini == GeminiSaveResponse \/ GeminiSafetyCheck \/ GeminiExtract \/ GeminiReturn

SpecGemini == InitGemini /\ [][NextGemini]_vars

-----------------------------------------------------------------------------
(* The invocation as a whole: generateImagesWithImagen (the Imagen generator  *)
(* module) and generateImagesWithGemini (src/src/auth.js), from the call of  *)
(* fetchWithProxy on.  fetchWithProxy is one step here: it gives a response  *)
(* or throws.  The access token is taken to be granted.                      *)

\* what fetchWithProxy gives
NetworkError == [kind |-> "error", code |-> "ECONNRESET"]
HttpResponse(status, isJson, body) ==
  [kind |-> "http", status |-> status, json |-> isJson, body |-> body]

\* response.ok
ResponseOk(r) == r.status >= 200 /\ r.status <= 299

\* response.text()
BodyText(r) == IF r.json THEN JsonStringify(r.body) ELSE <<[lit |-> r.body.s]>>

\* the messages lines 99 and 114 look for
SafetyThreshold == "safety filter threshold prohibited"
PersonGenerationUnavailable ==
  "You have chosen the 'Allow (All ages)' option for Person Generation, but this option is not available to you"

\* the records the non-OK branch of generateImagesWithImagen returns
ImagenSafetyHttpResult(message, status) ==
  [success |-> Bool(FALSE), error |-> Str("The safety filter blocked this prompt"),
   blocked |-> Bool(TRUE), details |-> message, statusCode |-> Num(status)]
ImagenPermissionResult(message, status) ==
  [success |-> Bool(FALSE), error |-> Str("Person generation permission error"),
   permissionIssue |-> Bool(TRUE), details |-> message, statusCode |-> Num(status)]
ImagenHttpErrorResult(message, detail, status) ==
  [success |-> Bool(FALSE), error |-> message, details |-> detail,
   statusCode |-> Num(status)]

\* a || '' for a field of the error body
OrEmpty(v) == IF Truthy(v) THEN v ELSE Str("")

\* lines 87-135: the answer to a response that is not OK; [threw, out].
\* response.json() has read the body when it fails, so the response.text()
\* of line 130 throws and the catch of the whole function answers
ImagenHttpError(r) ==
  IF ~r.json \/ PropThrows(r.body) THEN [threw |-> TRUE, out |-> CaughtResult]
  ELSE LET errorJson == GetProp(r.body, "error") IN
       IF ~Truthy(errorJson)
       THEN [threw |-> FALSE,
             out |-> ImagenHttpErrorResult(Str(""), Str(""), r.status)]
       ELSE LET errorMessage == OrEmpty(GetProp(errorJson, "message"))
                errorDetail == OrEmpty(GetProp(errorJson, "status")) IN
            IF r.status = 400 /\ errorMessage.t # "str"
            THEN [threw |-> TRUE, out |-> CaughtResult]
            ELSE IF r.status = 400 /\ Includes(errorMessage.s, SafetyThreshold)
                 THEN [threw |-> FALSE,
                       out |-> ImagenSafetyHttpResult(errorMessage, r.status)]
            ELSE IF r.status = 400
                      /\ Includes(errorMessage.s, PersonGenerationUnavailable)
                 THEN [threw |-> FALSE,
                       out |-> ImagenPermissionResult(errorMessage, r.status)]
            ELSE [threw |-> FALSE,
                  out |-> ImagenHttpErrorResult(errorMessage, errorDetail, r.status)]

\* a reference image: its path in pieces, and whether it can be read
RefImage(name, ext, readable) ==
  [dir |-> "refs", name |-> name, ext |-> ext, readable |-> readable]
RefPath(img) == img.dir \o "/" \o img.name \o img.ext

\* getMimeType
getMimeType(img) ==
  CASE img.ext \in {".jpg", ".jpeg"} -> "image/jpeg"
    [] img.ext = ".png" -> "image/png"
    [] img.ext = ".gif" -> "image/gif"
    [] img.ext = ".bmp" -> "image/bmp"
    [] img.ext = ".webp" -> "image/webp"
    [] OTHER -> "image/jpeg"

\* imageToBase64 of an image that can be read
imageToBase64(img) == IF img.ext = ".png" THEN PngBytes ELSE JpegBytes

\* lines 473-485: the request id
GeminiRequestId(refs, now) ==
  IF Len(refs) = 0 THEN GeminiRequestIdAt(now)
  ELSE IF Len(refs) > 1
       THEN "gemini_" \o refs[1].name \o "_and_" \o ToString(Len(refs) - 1)
              \o "_more_" \o ToString(now)
       ELSE "gemini_" \o refs[1].name \o "_" \o ToString(now)

\* lines 490-528: the request document, the images all read
GeminiRequestData(refs) ==
  Obj([contents |->
         Arr(<<Obj([parts |->
                Arr(<<Obj([text |-> Str("a cat")])>>
                    \o [n \in 1..Len(refs) |->
                          Obj([inline_data |->
                                 Obj([mime_type |-> Str(getMimeType(refs[n])),
                                      data |-> Str(imageToBase64(refs[n]))])])])])>>),
       generationConfig |->
         Obj([responseModalities |-> Arr(<<Str("Text"), Str("Image")>>)])])

errorFilename(rid) == PathJoin(jsonDir, rid \o "_error.json")

\* the records generateImagesWithGemini returns itself
GeminiImageFailedResult(img) ==
  [success |-> Bool(FALSE), error |-> Str("Failed to process image: " \o RefPath(img))]
GeminiHttpErrorResult(status, rid) ==
  [success |-> Bool(FALSE), error |-> Str("API error: " \o ToString(status)),
   jsonFiles |-> Obj([request |-> Str(requestFilename(rid)),
                      error |-> Str(errorFilename(rid))])]

-----------------------------------------------------------------------------
(* The invocation: what the service answers, and the steps *)

\* error bodies of the Vertex AI service
ErrorBody(code, message, status) ==
  Obj([error |-> Obj([code |-> Num(code), message |-> Str(message),
                      status |-> Str(status)])])

\* responses that are not OK
ErrorResponses ==
  {HttpResponse(400, TRUE,
     ErrorBody(400, "Image generation failed: the " \o SafetyThreshold \o " it.",
               "INVALID_ARGUMENT")),
   HttpResponse(400, TRUE,
     ErrorBody(400, PersonGenerationUnavailable \o ".", "INVALID_ARGUMENT")),
   HttpResponse(429, TRUE,
     ErrorBody(429, "Quota exceeded; the " \o SafetyThreshold \o " nothing.",
               "RESOURCE_EXHAUSTED")),
   HttpResponse(403, TRUE, ErrorBody(403, "Permission denied", "PERMISSION_DENIED")),
   HttpResponse(500, TRUE, EmptyObj),
   HttpResponse(502, FALSE, Str("<html>Bad Gateway</html>"))}

InvokeImagenResults ==
  {Obj([predictions |-> Arr(<<Obj([bytesBase64Encoded |-> Str(PngBytes),
                                   mimeType |-> Str("image/png")])>>)]),
   Obj([predictions |-> Arr(<<Obj([bytesBase64Encoded |-> Str(PngBytes),
                                   mimeType |-> Str("image/png")]),
                              Obj([bytesBase64Encoded |-> Str(JpegBytes),
                                   mimeType |-> Str("image/jpeg")])>>)]),
   Obj([predictions |-> Arr(<<Obj([raiFilteredReason |-> Str(SomeFilteredReason(1))]),
                              Obj([bytesBase64Encoded |-> Str(BigBytes),
                                   mimeType |-> Str("image/png")])>>)]),
   Obj([predictions |-> Arr(<<Obj([raiFilteredReason |-> Str(AllFilteredReason)])>>)]),
   Obj([predictions |-> Arr(<<Obj([raiFilteredReason |-> Str(SomeFilteredReason(1))])>>)]),
   EmptyObj}

InvokeGeminiResults ==
  {Obj([candidates |-> Arr(<<Obj([finishReason |-> Str("STOP"),
                                  content |-> Obj([parts |-> Arr(ps)])])>>)]) :
     ps \in {<<GeminiPart("image/png", PngBytes)>>,
             <<Obj([text |-> Str("Here is the image.")]),
               GeminiPart("image/png", BigBytes)>>,
             <<GeminiPart("image/png", PngBytes), GeminiPart("image/jpeg", JpegBytes)>>,
             <<Obj([text |-> Str("I cannot draw that.")])>>}}
    \cup {Obj([candidates |-> Arr(<<Obj([finishReason |-> Str(ImageSafety)])>>)]),
          EmptyObj}

\* what the service may answer to the request of a vendor
Answers(v) ==
  {NetworkError} \cup ErrorResponses
    \cup {HttpResponse(200, TRUE, r) :
            r \in IF v = "imagen" THEN InvokeImagenResults ELSE InvokeGeminiResults}
    \cup {HttpResponse(200, FALSE, Str("<html>OK</html>"))}

\* the reference images the options may name
RefLists ==
  {<<>>,
   <<RefImage("cat", ".png", TRUE)>>,
   <<RefImage("cat", ".png", FALSE)>>,
   <<RefImage("cat", ".png", TRUE), RefImage("dog", ".jpg", FALSE)>>,
   <<RefImage("cat", ".png", FALSE), RefImage("dog", ".jpg", TRUE)>>,
   <<RefImage("cat", ".png", TRUE), RefImage("dog", ".jpg", TRUE)>>}

\* the files an invocation may come to write
InvokeFiles(v, rid) ==
  {requestFilename(rid), responseFilename(rid)}
    \cup IF v = "imagen"
         THEN {PathJoin(outputDir, DirectFilename(rid, 0, "png")),
               PathJoin(outputDir, DirectFilename(rid, 1, "jpeg"))}
         ELSE {errorFilename(rid),
               PathJoin(outputDir, GeminiFilename(rid, 0, 1, "png")),
               PathJoin(outputDir, GeminiFilename(rid, 1, 2, "jpeg"))}

\* the state when the generator is about to build and send its request; at
\* most one path of the file system refuses to be written
InitInvoke ==
  /\ pc = "start"
  /\ vendor \in {"imagen", "gemini"}
  /\ referenceImages \in IF vendor = "gemini" THEN RefLists ELSE {<<>>}
  /\ requestId \in {IF vendor = "imagen" THEN RequestIdAt(now)
                    ELSE GeminiRequestId(referenceImages, now) : now \in Clock}
  /\ failing \in {{}} \cup {{p} : p \in InvokeFiles(vendor, requestId)}
  /\ response = NoResponse
  /\ sent = 0
  /\ NoFetch
  /\ NoCall
  /\ failed = {}
  /\ result = Undef
  /\ heap = <<>>
  /\ obj = Undef
  /\ obj0 = Undef
  /\ ret = Undef
  /\ ret2 = Undef
  /\ fs = [p \in {} |-> <<>>]
  /\ writes = <<>>
  /\ savedImagePaths = <<>>
  /\ generatedCount = 0
  /\ blockedCount = 0
  /\ i = 0
  /\ out = NoResult
  /\ run = 1
  /\ first = NoResult
  /\ imageCount = 0
  /\ totalRequested = IF vendor = "imagen" THEN Num(DefaultCount) ELSE Undef
  /\ logged = <<>>

\* the parsed body arrives: it is the object the normalizer is handed
Received(body) ==
  /\ result' = body
  /\ heap' = Append(heap, body)
  /\ obj' = Ref(Len(heap) + 1)
  /\ obj0' = body

\* generateImagesWithImagen lines 85-137: the request is sent and the
\* response is told OK from not OK
ImagenSend ==
  /\ pc = "start"
  /\ vendor = "imagen"
  /\ sent' = sent + 1
  /\ \E r \in Answers(vendor) :
       /\ response' = r
       /\ IF r.kind = "error"
          THEN /\ out' = CaughtResult /\ pc' = "done"
               /\ failed' = failed \cup {"transport"}
               /\ UNCHANGED <<result, heap, obj, obj0>>
          ELSE IF ~ResponseOk(r)
               THEN /\ out' = ImagenHttpError(r).out /\ pc' = "done"
                    /\ failed' = failed \cup {"http"}
                    /\ UNCHANGED <<result, heap, obj, obj0>>
               ELSE IF ~r.json
                    THEN /\ out' = CaughtResult /\ pc' = "done"
                         /\ failed' = failed \cup {"parse"}
                         /\ UNCHANGED <<result, heap, obj, obj0>>
                    ELSE /\ Received(r.body)
                         /\ pc' = "received"
                         /\ UNCHANGED <<out, failed>>
  /\ UNCHANGED <<ret, ret2, fs, writes, requestId, savedImagePaths, generatedCount,
                 blockedCount, i, run, first, failing, imageCount, vendor,
                 referenceImages, proxyVars, callVars, countVars>>

\* the loop going on after an image that cannot be read
GeminiLoadImageSkip ==
  /\ pc = "start"
  /\ vendor = "gemini"
  /\ i < Len(referenceImages)
  /\ failed' = IF referenceImages[i + 1].readable THEN failed
               ELSE failed \cup {"reference"}
  /\ i' = i + 1
  /\ UNCHANGED <<pc, out>>
  /\ UNCHANGED <<heap, obj, obj0, ret, ret2, fs, writes, result, requestId,
                 savedImagePaths, generatedCount, blockedCount, run, first, failing,
                 imageCount, invVars>>

\* generateImagesWithGemini lines 505-520: one reference image is read
GeminiLoadImage ==
  /\ pc = "start"
  /\ vendor = "gemini"
  /\ i < Len(referenceImages)
  /\ IF referenceImages[i + 1].readable
     THEN UNCHANGED <<pc, out, failed>>
     ELSE /\ out' = GeminiImageFailedResult(referenceImages[i + 1])
          /\ pc' = "done"
          /\ failed' = failed \cup {"reference"}
  /\ i' = i + 1
  /\ UNCHANGED <<heap, obj, obj0, ret, ret2, fs, writes, result, requestId,
                 savedImagePaths, generatedCount, blockedCount, run, first, failing,
                 imageCount, invVars>>

\* lines 537-539: the request file (the request document and its masked
\* copy are not kept in the store: nothing refers to them afterwards)
GeminiSaveRequest ==
  /\ pc = "start"
  /\ vendor = "gemini"
  /\ i = Len(referenceImages)
  /\ \E m \in {maskAndSaveJson(<<GeminiRequestData(referenceImages)>>, fs, Ref(1),
                               requestFilename(requestId))} :
       /\ heap' = heap
       /\ IF m.threw \/ WriteThrows(failing, requestFilename(requestId))
          THEN /\ fs' = fs /\ out' = GeminiCaughtResult /\ pc' = "done"
               /\ failed' = failed \cup {IF m.threw THEN "mask" ELSE "write"}
          ELSE fs' = m.fs /\ out' = out /\ pc' = "send" /\ failed' = failed
  /\ UNCHANGED <<obj, obj0, ret, ret2, writes, result, requestId, savedImagePaths,
                 generatedCount, blockedCount, i, run, first, failing, imageCount,
                 invVars>>

\* lines 556-598: the request is sent; a response that is not OK leaves an
\* error file (response.json() throws, response.text() having read the body)
GeminiSend ==
  /\ pc = "send"
  /\ sent' = sent + 1
  /\ \E r \in Answers(vendor) :
       /\ response' = r
       /\ IF r.kind = "error"
          THEN /\ out' = GeminiCaughtResult /\ pc' = "done"
               /\ failed' = failed \cup {"transport"}
               /\ UNCHANGED <<result, heap, obj, obj0, fs>>
          ELSE IF ~ResponseOk(r)
               THEN /\ pc' = "done"
                    /\ IF WriteThrows(failing, errorFilename(requestId))
                       THEN /\ out' = GeminiCaughtResult
                            /\ failed' = failed \cup {"http", "write"}
                            /\ fs' = fs
                       ELSE /\ out' = GeminiHttpErrorResult(r.status, requestId)
                            /\ failed' = failed \cup {"http"}
                            /\ fs' = saveFile(fs, errorFilename(requestId), BodyText(r))
                    /\ UNCHANGED <<result, heap, obj, obj0>>
               ELSE IF ~r.json
                    THEN /\ out' = GeminiCaughtResult /\ pc' = "done"
                         /\ failed' = failed \cup {"parse"}
                         /\ UNCHANGED <<result, heap, obj, obj0, fs>>
                    ELSE /\ Received(r.body)
                         /\ pc' = "gemini"
                         /\ UNCHANGED <<out, failed, fs>>
  /\ i' = 0
  /\ UNCHANGED <<ret, ret2, writes, requestId, savedImagePaths, generatedCount,
                 blockedCount, run, first, failing, imageCount, vendor,
                 referenceImages, proxyVars, callVars, countVars>>

NextInvoke ==
  \/ ImagenSend \/ ImagenSaveJson \/ ImagenFilterScan \/ ImagenExtract \/ ImagenOutcome
  \/ GeminiLoadImage \/ GeminiSaveRequest \/ GeminiSend
  \/ GeminiSaveResponse \/ GeminiSafetyCheck \/ GeminiExtract \/ GeminiReturn

SpecInvoke == InitInvoke /\ [][NextInvoke]_vars

-----------------------------------------------------------------------------
(* Proxy handling of src/src/auth.js: detectSystemProxy, createProxyAgent and *)
(* fetchWithProxy                                                             *)

\* a || b of two values of process.env
OrElse(a, b) == IF a # Unset THEN a ELSE b

\* saveConfig(c) on the store cfg, config.js lines 39-59: proxySettings is
\* set when it is not undefined, every other key when its value is truthy
saveConfig(cfg, c) ==
  [k \in DOMAIN cfg |->
     IF k \in DOMAIN c /\ (k = "proxySettings" \/ c[k] # "") THEN c[k] ELSE cfg[k]]

\* the settings detectSystemProxy builds
ProxySettings(httpProxy, httpsProxy, noProxy) ==
  [t |-> "settings", httpProxy |-> httpProxy, httpsProxy |-> httpsProxy,
   noProxy |-> noProxy]

\* detectSystemProxy(argv) in environment e and store cfg; [settings, config]
\* a detection that never looks at the store
detectSystemProxyAlways(a, e, cfg) ==
  LET httpProxy == OrElse(e["HTTP_PROXY"], e["http_proxy"])
      httpsProxy == OrElse(OrElse(e["HTTPS_PROXY"], e["https_proxy"]), httpProxy)
      noProxy == OrElse(e["NO_PROXY"], e["no_proxy"])
      proxySettings == ProxySettings(httpProxy, httpsProxy, noProxy) IN
  [settings |-> proxySettings,
   config |-> saveConfig(cfg, [proxySettings |-> proxySettings])]
detectSystemProxy(a, e, cfg) ==
  IF cfg.proxySettings # Null /\ ~a.detectProxy
  THEN [settings |-> cfg.proxySettings, config |-> cfg]
  ELSE LET httpProxy == OrElse(e["HTTP_PROXY"], e["http_proxy"])
           httpsProxy == OrElse(OrElse(e["HTTPS_PROXY"], e["https_proxy"]), httpProxy)
           noProxy == OrElse(e["NO_PROXY"], e["no_proxy"])
           proxySettings == ProxySettings(httpProxy, httpsProxy, noProxy) IN
       [settings |-> proxySettings,
        config |-> saveConfig(cfg, [proxySettings |-> proxySettings])]

\* new HttpsProxyAgent(url)
HttpsProxyAgent(url) == [agent |-> "proxy", proxy |-> url]

\* createProxyAgent(argv) in environment e and store cfg; [agent, env, config]
createProxyAgent(a, e, cfg) ==
  IF a.noProxy THEN [agent |-> NoAgent, env |-> e, config |-> cfg]
  ELSE IF e["SYSTEM_PROXY"] # Unset
       THEN [agent |-> HttpsProxyAgent(e["SYSTEM_PROXY"]), env |-> e, config |-> cfg]
       ELSE LET d == detectSystemProxy(a, e, cfg) IN
            IF d.settings.httpsProxy # Unset
            THEN [agent |-> HttpsProxyAgent(d.settings.httpsProxy),
                  env |-> [e EXCEPT !["SYSTEM_PROXY"] = d.settings.httpsProxy],
                  config |-> d.config]
            ELSE [agent |-> NoAgent, env |-> e, config |-> d.config]

\* what fetch gives: a response, or it throws
TimedOut == [kind |-> "error", code |-> "ETIMEDOUT"]
WriteError == [kind |-> "error", code |-> "EACCES"]
FetchOutcomes ==
  {HttpResponse(200, TRUE, EmptyObj), HttpResponse(500, TRUE, EmptyObj),
   NetworkError, TimedOut}

\* lines 262-270: the debug file of a request
debugFile(rid) == PathJoin(PathJoin(outputDir, "json"), rid \o "_debug.json")

\* lines 271-276: what the debug file says (the options are those of
\* generateImagesWithImagen, lines 72-79)
debugData(agent) ==
  Obj([url |-> Str("https://aiplatform.googleapis.com/predict"),
       options |->
         Obj([method |-> Str("POST"),
              headers |->
                Obj([k \in {"Content-Type", "Authorization"} |->
                       IF k = "Content-Type" THEN Str("application/json")
                       ELSE Str("Bearer token")]),
              body |-> Str("[BODY_CONTENT]")]),
       timestamp |-> Str("2025-01-01T00:00:00.000Z"),
       proxyUsed |-> Bool(agent # NoAgent)])

\* line 302: the condition of the retry
ShouldRetry(e, agent, err) ==
  e["SYSTEM_PROXY"] # Unset /\ (agent = NoAgent \/ err.code = "ETIMEDOUT")

\* the values process.env may hold when fetchWithProxy is called
ProxyUrls == {"http://proxy:8080", "http://other:3128"}
Environments ==
  {[n \in EnvNames |->
      CASE n = "HTTP_PROXY" -> h
        [] n = "HTTPS_PROXY" -> hs
        [] n = "http_proxy" -> lh
        [] n = "SYSTEM_PROXY" -> sp
        [] OTHER -> Unset] :
     h \in {Unset, "http://proxy:8080"}, hs \in {Unset, "http://other:3128"},
     lh \in {Unset, "http://lower:8888"}, sp \in {Unset} \cup ProxyUrls}

\* what the store may hold
Configs ==
  {DefaultConfig,
   [DefaultConfig EXCEPT !.proxySettings = ProxySettings(Unset, Unset, Unset)],
   [DefaultConfig EXCEPT
      !.proxySettings = ProxySettings("http://stored:3128", "http://stored:3128", Unset)]}

\* the environment, the store and the flags when a function of auth.js that
\* goes through the proxy is called
ProxyInputs ==
  /\ env \in Environments
  /\ config \in Configs
  /\ argv \in [noProxy : BOOLEAN, detectProxy : BOOLEAN, debug : BOOLEAN]
  /\ proxyAgent = NoAgent
  /\ fetchOptions = [agent |-> NoAgent]
  /\ requests = <<>>
  /\ error = NoError
  /\ original = [HTTP_PROXY |-> Unset, HTTPS_PROXY |-> Unset]
  /\ NoCall
  /\ requestId = RequestIdAt(1)
  /\ failing \in {{}, {debugFile(requestId)}}
  /\ vendor = "imagen"
  /\ response = NoResponse
  /\ referenceImages = <<>>
  /\ sent = 0
  /\ failed = {}
  /\ result = Undef
  /\ heap = <<>>
  /\ obj = Undef
  /\ obj0 = Undef
  /\ ret = Undef
  /\ ret2 = Undef
  /\ fs = [p \in {} |-> <<>>]
  /\ writes = <<>>
  /\ savedImagePaths = <<>>
  /\ generatedCount = 0
  /\ blockedCount = 0
  /\ i = 0
  /\ out = NoResult
  /\ run = 1
  /\ first = NoResult
  /\ imageCount = 0
  /\ NoCount

\* fetchWithProxy is called
InitFetch == pc = "fetch" /\ ProxyInputs

\* getAccessToken is called
InitToken == pc = "token" /\ ProxyInputs

\* what fetchWithProxy leaves alone
fetchFrame ==
  <<heap, obj, obj0, ret, ret2, writes, result, requestId, savedImagePaths,
    generatedCount, blockedCount, i, out, run, first, failing, imageCount, failed,
    vendor, referenceImages, sent, callVars, countVars>>

\* lines 239-245: the agent and the options of the first request
FetchCreateAgent ==
  /\ pc = "fetch"
  /\ \E c \in {createProxyAgent(argv, env, config)} :
       /\ proxyAgent' = c.agent
       /\ fetchOptions' = [agent |-> c.agent]
       /\ env' = c.env
       /\ config' = c.config
  /\ pc' = "first"
  /\ UNCHANGED <<argv, requests, error, original, response, fs, fetchFrame>>

\* lines 281-321: the catch, up to the retry
FetchCatch(err) ==
  /\ error' = err
  /\ original' = [HTTP_PROXY |-> env["HTTP_PROXY"], HTTPS_PROXY |-> env["HTTPS_PROXY"]]
  /\ IF ShouldRetry(env, proxyAgent, err)
     THEN /\ env' = [env EXCEPT !["HTTPS_PROXY"] = env["SYSTEM_PROXY"],
                                !["HTTP_PROXY"] = env["SYSTEM_PROXY"]]
          /\ fetchOptions' = [agent |-> HttpsProxyAgent(env["SYSTEM_PROXY"])]
          /\ pc' = "retry"
     ELSE /\ UNCHANGED <<env, fetchOptions>>
          /\ pc' = "thrown"

\* lines 256-280: the first request and the debug file
FetchFirst ==
  /\ pc = "first"
  /\ requests' = Append(requests, fetchOptions.agent)
  /\ \E r \in FetchOutcomes :
       IF r.kind = "error"
       THEN FetchCatch(r) /\ UNCHANGED <<response, fs>>
       ELSE IF argv.debug /\ WriteThrows(failing, debugFile(requestId))
            THEN FetchCatch(WriteError) /\ UNCHANGED <<response, fs>>
            ELSE /\ response' = r
                 /\ fs' = IF argv.debug
                          THEN saveFile(fs, debugFile(requestId),
                                        JsonStringify(debugData(proxyAgent)))
                          ELSE fs
                 /\ pc' = "returned"
                 /\ UNCHANGED <<env, fetchOptions, error, original>>
  /\ UNCHANGED <<config, argv, proxyAgent, fetchFrame>>

\* lines 319-346: the retry, the restoring of the environment, and the way
\* out: the retry's response, or the error of the first request
FetchRetry ==
  /\ pc = "retry"
  /\ requests' = Append(requests, fetchOptions.agent)
  /\ env' = [env EXCEPT !["HTTPS_PROXY"] = original["HTTPS_PROXY"],
                        !["HTTP_PROXY"] = original["HTTP_PROXY"]]
  /\ \E r \in FetchOutcomes :
       IF r.kind = "error"
       THEN pc' = "thrown" /\ UNCHANGED response
       ELSE pc' = "returned" /\ response' = r
  /\ UNCHANGED <<config, argv, proxyAgent, fetchOptions, error, original, fs,
                 fetchFrame>>

\* getAccessToken lines 73-90: the settings are looked up and laid over
\* HTTP_PROXY and HTTPS_PROXY
TokenSetProxy ==
  /\ pc = "token"
  /\ original' = [HTTP_PROXY |-> env["HTTP_PROXY"], HTTPS_PROXY |-> env["HTTPS_PROXY"]]
  /\ \E d \in {detectSystemProxy(argv, env, config)} :
       /\ config' = d.config
       /\ env' = IF d.settings.httpsProxy # Unset
                 THEN [env EXCEPT
                         !["HTTPS_PROXY"] = d.settings.httpsProxy,
                         !["HTTP_PROXY"] = OrElse(d.settings.httpProxy,
                                                  d.settings.httpsProxy)]
                 ELSE IF env["SYSTEM_PROXY"] # Unset
                      THEN [env EXCEPT !["HTTPS_PROXY"] = env["SYSTEM_PROXY"],
                                       !["HTTP_PROXY"] = env["SYSTEM_PROXY"]]
                      ELSE env
  /\ pc' = "auth"
  /\ UNCHANGED <<argv, proxyAgent, fetchOptions, requests, error, response, fs,
                 fetchFrame>>

\* getAccessToken lines 92-119: the token is asked for; with the token in
\* hand the two variables are put back, an exception goes through the catch
\* of lines 116-119, which throws it again
TokenObtain ==
  /\ pc = "auth"
  /\ \E obtained \in BOOLEAN :
       IF obtained
       THEN /\ env' = [env EXCEPT !["HTTPS_PROXY"] = original["HTTPS_PROXY"],
                                  !["HTTP_PROXY"] = original["HTTP_PROXY"]]
            /\ pc' = "returned"
            /\ error' = error
       ELSE /\ env' = env
            /\ pc' = "thrown"
            /\ error' = [kind |-> "error", code |-> "ECONNRESET"]
  /\ UNCHANGED <<config, argv, proxyAgent, fetchOptions, requests, original,
                 response, fs, fetchFrame>>

NextToken == TokenSetProxy \/ TokenObtain

SpecToken == InitToken /\ [][NextToken]_vars

NextFetch == FetchCreateAgent \/ FetchFirst \/ FetchRetry

SpecFetch == InitFetch /\ [][NextFetch]_vars

-----------------------------------------------------------------------------
(* saveFile by itself, src/src/utils.js lines 185-206 *)

\* buffer.toString('base64'): four characters for three bytes, '=' filling
\* the last group
Base64Char(v) == CharAt(Base64Alphabet, v + 1)
RECURSIVE ToBase64(_)
ToBase64(b) ==
  IF Len(b) = 0 THEN ""
  ELSE IF Len(b) = 1
       THEN Base64Char(b[1] \div 4) \o Base64Char((b[1] % 4) * 16) \o "=="
  ELSE IF Len(b) = 2
       THEN Base64Char(b[1] \div 4) \o Base64Char((b[1] % 4) * 16 + b[2] \div 16)
              \o Base64Char((b[2] % 16) * 4) \o "="
  ELSE Base64Char(b[1] \div 4) \o Base64Char((b[1] % 4) * 16 + b[2] \div 16)
         \o Base64Char((b[2] % 16) * 4 + b[3] \div 64) \o Base64Char(b[3] % 64)
         \o ToBase64(SubSeq(b, 4, Len(b)))

\* saveFile(filePath, data, {isBase64}) on the files; [threw, v, fs] with v
\* the path returned
saveFileCall(files, bad, a) ==
  IF WriteThrows(bad, a.filePath) THEN [threw |-> TRUE, v |-> Undef, fs |-> files]
  ELSE [threw |-> FALSE, v |-> Str(a.filePath),
        fs |-> IF a.isBase64 THEN saveFileBase64(files, a.filePath, a.data)
               ELSE saveFile(files, a.filePath, a.data)]

\* strings handed to saveFile: encodings of zero to eight bytes, and text
\* the decoder takes although no encoder writes it (no padding, bits left
\* over in the last character, a blank, the URL-safe letters)
EncodedTexts ==
  {"", "QQ==", "QUI=", "QUJD", "QUJDRA==", "/9j/4AA=", "iVBORw0KGgo=", "+/+/", "AAAA"}
LooseTexts == {"QQ", "QR==", "QUI", "QUJD QUJD", "-_-_"}
SavePaths == {"images/a.png", "images/b.png"}

SaveArgs ==
  {[op |-> "saveFile", filePath |-> p, data |-> d, isBase64 |-> b] :
     p \in SavePaths, d \in EncodedTexts \cup LooseTexts, b \in BOOLEAN}

\* saveFile is about to be called on an empty directory
InitSaveFile ==
  /\ pc = "call"
  /\ args \in SaveArgs
  /\ returned = NoReturn
  /\ failing \in {{}, {"images/b.png"}}
  /\ fs = [p \in {} |-> <<>>]
  /\ run = 1
  /\ first = NoResult
  /\ NoFetch
  /\ requestId = RequestIdAt(1)
  /\ vendor = "none"
  /\ response = NoResponse
  /\ referenceImages = <<>>
  /\ sent = 0
  /\ failed = {}
  /\ result = Undef
  /\ heap = <<>>
  /\ obj = Undef
  /\ obj0 = Undef
  /\ ret = Undef
  /\ ret2 = Undef
  /\ writes = <<>>
  /\ savedImagePaths = <<>>
  /\ generatedCount = 0
  /\ blockedCount = 0
  /\ i = 0
  /\ out = NoResult
  /\ imageCount = 0
  /\ NoCount

\* what the calls of one function by itself leave alone
callFrame ==
  <<result, requestId, savedImagePaths, generatedCount, blockedCount, i, out,
    failing, imageCount, failed, vendor, response, referenceImages, sent, writes,
    ret, ret2, proxyVars, countVars>>

\* the call
SaveFileCall ==
  /\ pc = "call"
  /\ args.op = "saveFile"
  /\ \E c \in {saveFileCall(fs, failing, args)} :
       /\ fs' = c.fs
       /\ returned' = [threw |-> c.threw, v |-> c.v]
  /\ pc' = "done"
  /\ UNCHANGED <<args, run, first, heap, obj, obj0, callFrame>>

\* a second call, on the files the first one left
SaveFileNext ==
  /\ pc = "done"
  /\ args.op = "saveFile"
  /\ run = 1
  /\ \E d \in {"QUJD", "QQ==", "QUI"}, p \in SavePaths :
       args' = [args EXCEPT !.data = d, !.filePath = p]
  /\ first' = [success |-> Undef, args |-> args, fs |-> fs]
  /\ run' = 2
  /\ pc' = "call"
  /\ UNCHANGED <<returned, fs, heap, obj, obj0, callFrame>>

NextSaveFile == SaveFileCall \/ SaveFileNext

SpecSaveFile == InitSaveFile /\ [][NextSaveFile]_vars

-----------------------------------------------------------------------------
(* getValueAtPath and setValueAtPath by themselves, src/src/utils.js lines   *)
(* 146-174                                                                   *)

\* the path a[0].b as its tokens
Dotted(a, b) == <<a, ".", b>>
Indexed(a, n) == <<a, "[", ToString(n), "]">>

PathRoots ==
  {EmptyObj,
   Obj([a |-> Arr(<<Obj([b |-> Num(1)])>>)]),
   Obj([a |-> Arr(<<Obj([b |-> Num(1)]), Obj([b |-> Num(2), c |-> Num(3)])>>)]),
   Obj([a |-> Arr(<<>>)]),
   Obj([a |-> Obj([b |-> Obj([c |-> Num(2)])])]),
   Obj([a |-> Obj([b |-> Num(1)]), c |-> Str("x")]),
   Obj([a |-> Null]),
   Obj([a |-> Arr(<<Null>>)]),
   Obj([a |-> Num(1)])}

PathTexts ==
  {<<"a">>, <<"c">>, Dotted("a", "b"), Dotted("a", "b") \o <<".", "c">>,
   Indexed("a", 0), Indexed("a", 0) \o <<".", "b">>,
   Indexed("a", 1) \o <<".", "c">>, Indexed("a", 0) \o <<".", "c">>}

PathArgs ==
  {[op |-> "get", path |-> p, value |-> Undef] : p \in PathTexts}
    \cup {[op |-> "set", path |-> p, value |-> v] :
            p \in PathTexts, v \in {Num(5), Str("masked")}}

\* the path names a property of an array that is not an index (the arrays
\* of the model have elements only)
NamesArrayProperty(root, path) ==
  LET segments == Segments(path)
      parent == GetLoop(root, SubSeq(segments, 1, Len(segments) - 1), 1) IN
  ~parent.threw /\ parent.v.t = "arr" /\ ~IsIndex(segments[Len(segments)])

\* one of the two functions is about to be called on a root
InitPath ==
  /\ pc = "call"
  /\ args \in PathArgs
  /\ returned = NoReturn
  /\ obj0 \in PathRoots
  /\ args.op = "set" => ~NamesArrayProperty(obj0, args.path)
  /\ heap = <<obj0>>
  /\ obj = Ref(1)
  /\ failing = {}
  /\ fs = [p \in {} |-> <<>>]
  /\ run = 1
  /\ first = NoResult
  /\ NoFetch
  /\ requestId = RequestIdAt(1)
  /\ vendor = "none"
  /\ response = NoResponse
  /\ referenceImages = <<>>
  /\ sent = 0
  /\ failed = {}
  /\ result = Undef
  /\ ret = Undef
  /\ ret2 = Undef
  /\ writes = <<>>
  /\ savedImagePaths = <<>>
  /\ generatedCount = 0
  /\ blockedCount = 0
  /\ i = 0
  /\ out = NoResult
  /\ imageCount = 0
  /\ NoCount

\* getValueAtPath(obj, path)
GetValueCall ==
  /\ pc = "call"
  /\ args.op = "get"
  /\ returned' = getValueAtPath(heap[obj.r], args.path)
  /\ pc' = "done"
  /\ UNCHANGED <<args, heap, obj, obj0, fs, run, first, callFrame>>

\* setValueAtPath(obj, path, value): the root is changed in place
SetValueCall ==
  /\ pc = "call"
  /\ args.op = "set"
  /\ \E c \in {setValueAtPath(heap[obj.r], args.path, args.value)} :
       /\ heap' = [heap EXCEPT ![obj.r] = c.v]
       /\ returned' = [threw |-> c.threw, v |-> Undef]
  /\ pc' = "done"
  /\ UNCHANGED <<args, obj, obj0, fs, run, first, callFrame>>

NextPath == GetValueCall \/ SetValueCall

SpecPath == InitPath /\ [][NextPath]_vars

-----------------------------------------------------------------------------
(* The options of an Imagen request: the flags of src/index.js, the answers  *)
(* of src/src/interactive.js, and the request generateImagesWithImagen       *)
(* builds from them                                                          *)

\* the choices of the flags, index.js lines 105-148
AspectRatios == {"1:1", "16:9", "9:16", "3:4", "4:3"}
Counts == {1, 2, 3, 4}
PersonGenerationFlags == {"block_all", "block_children", "allow_adult"}

\* the choices of the list prompts, interactive.js lines 236-285
PersonGenerationAnswers == {"allow_all", "allow_adult", "dont_allow"}

\* a flag that is not given
Omitted == Undef

\* v = d in a destructuring: the default stands for undefined only
OrDefault(v, d) == IF v = Undef THEN d ELSE v

\* yargs: a flag that is omitted takes its default; a value outside the
\* choices of a flag ends the program
FlagsAccepted(a) ==
  /\ a.aspectRatio = Omitted \/ a.aspectRatio.s \in AspectRatios
  /\ a.count = Omitted \/ a.count.n \in Counts
  /\ a.personGeneration = Omitted \/ a.personGeneration.s \in PersonGenerationFlags
ParsedFlags(a) ==
  [aspectRatio |-> OrDefault(a.aspectRatio, Str("1:1")),
   count |-> OrDefault(a.count, Num(1)),
   negativePrompt |-> Str(""),
   enhance |-> Bool(FALSE),
   personGeneration |-> OrDefault(a.personGeneration, Str("allow_adult")),
   safety |-> Str("block_few"),
   watermark |-> Bool(TRUE)]

\* runInteractiveMode: the answers are the options
InteractiveOptions(a) ==
  [aspectRatio |-> a.aspectRatio, count |-> a.count, negativePrompt |-> Str(""),
   enhance |-> Bool(FALSE), personGeneration |-> a.personGeneration,
   safety |-> Str("block_few"), watermark |-> Bool(FALSE)]

\* generateImagesWithImagen lines 16-64: the request built from the options
ImagenRequestData(options) ==
  Obj([instances |-> Arr(<<Obj([prompt |-> Str("a cat")])>>),
       parameters |->
         Obj([aspectRatio |-> OrDefault(options.aspectRatio, Str("1:1")),
              sampleCount |-> OrDefault(options.count, Num(1)),
              negativePrompt |-> OrDefault(options.negativePrompt, Str("")),
              enhancePrompt |-> OrDefault(options.enhance, Bool(FALSE)),
              personGeneration |->
                OrDefault(options.personGeneration, Str("allow_adult")),
              safetySetting |-> OrDefault(options.safety, Str("block_few")),
              addWatermark |-> OrDefault(options.watermark, Bool(TRUE)),
              includeRaiReason |-> Bool(TRUE),
              language |-> Str("auto")])])

\* what the user may type or pick
OptionArgs ==
  {[op |-> "options", mode |-> "cli", aspectRatio |-> r, count |-> c,
    personGeneration |-> g] :
     r \in {Omitted, Str("16:9"), Str("3:4"), Str("2:1")},
     c \in {Omitted} \cup {Num(n) : n \in Counts \cup {5}},
     g \in {Omitted, Str("allow_all")} \cup {Str(x) : x \in PersonGenerationFlags}}
    \cup {[op |-> "options", mode |-> "interactive", aspectRatio |-> Str(r),
           count |-> Num(c), personGeneration |-> Str(g)] :
            r \in AspectRatios, c \in Counts, g \in PersonGenerationAnswers}

\* the program is started with flags, or the prompts are answered
InitOptions ==
  /\ pc = "call"
  /\ args \in OptionArgs
  /\ returned = NoReturn
  /\ obj0 = Undef
  /\ heap = <<>>
  /\ obj = Undef
  /\ failing = {}
  /\ fs = [p \in {} |-> <<>>]
  /\ run = 1
  /\ first = NoResult
  /\ NoFetch
  /\ requestId = RequestIdAt(1)
  /\ vendor = "imagen"
  /\ response = NoResponse
  /\ referenceImages = <<>>
  /\ sent = 0
  /\ failed = {}
  /\ result = Undef
  /\ ret = Undef
  /\ ret2 = Undef
  /\ writes = <<>>
  /\ savedImagePaths = <<>>
  /\ generatedCount = 0
  /\ blockedCount = 0
  /\ i = 0
  /\ out = NoResult
  /\ imageCount = 0
  /\ NoCount

\* the flags are parsed and the request is built, or the program ends
OptionsFromFlags ==
  /\ pc = "call"
  /\ args.op = "options"
  /\ args.mode = "cli"
  /\ IF FlagsAccepted(args)
     THEN /\ returned' = [threw |-> FALSE, v |-> ImagenRequestData(ParsedFlags(args))]
          /\ pc' = "done"
     ELSE /\ returned' = [threw |-> TRUE, v |-> Undef]
          /\ pc' = "exit"
  /\ UNCHANGED <<args, heap, obj, obj0, fs, run, first, callFrame>>

\* the prompts are answered and the request is built
OptionsFromAnswers ==
  /\ pc = "call"
  /\ args.op = "options"
  /\ args.mode = "interactive"
  /\ returned' = [threw |-> FALSE, v |-> ImagenRequestData(InteractiveOptions(args))]
  /\ pc' = "done"
  /\ UNCHANGED <<args, heap, obj, obj0, fs, run, first, callFrame>>

NextOptions == OptionsFromFlags \/ OptionsFromAnswers

SpecOptions == InitOptions /\ [][NextOptions]_vars

-----------------------------------------------------------------------------
(* Vocabulary of the masking claims *)

\* v[k], undefined where the code would find nothing to read
Child(v, k) == IF PropThrows(v) THEN Undef ELSE GetProp(v, k)

\* the elements of an array, none for anything else
Elements(v) == IF v.t = "arr" THEN {v.a[n] : n \in 1..Len(v.a)} ELSE {}

\* the values at predictions[i].bytesBase64Encoded
PredictionBytes(d) ==
  {Child(p, "bytesBase64Encoded") : p \in Elements(Child(d, "predictions"))}

\* the values at predictions[i].images[k].bytesBase64Encoded
PredictionImageBytes(d) ==
  {Child(im, "bytesBase64Encoded") :
     im \in UNION {Elements(Child(p, "images")) :
                     p \in Elements(Child(d, "predictions"))}}

\* the values at candidates[i].content.parts[j].inlineData.data
InlineImageData(d) ==
  {Child(Child(part, "inlineData"), "data") :
     part \in UNION {Elements(Child(Child(c, "content"), "parts")) :
                       c \in Elements(Child(d, "candidates"))}}

\* a string of more than 100 characters
IsRawPayload(v) == v.t = "str" /\ Len(v.s) > 100

\* the string literals of a JSON text
Literals(text) == {text[n].lit : n \in {m \in 1..Len(text) : "lit" \in DOMAIN text[m]}}

\* the leaves of a tree with the segments that lead to them
RECURSIVE Leaves(_, _)
Leaves(v, prefix) ==
  CASE v.t = "obj" /\ DOMAIN v.f # {} ->
         UNION {Leaves(v.f[k], Append(prefix, k)) : k \in DOMAIN v.f}
    [] v.t = "arr" /\ v.a # <<>> ->
         UNION {Leaves(v.a[n], Append(prefix, ToString(n - 1))) : n \in 1..Len(v.a)}
    [] OTHER -> {[path |-> prefix, v |-> v]}

\* the segment sequences of the paths the masker identifies in a document
IdentifiedSegments(d) ==
  LET p == IdentifyPaths(d) IN {Segments(p.paths[n]) : n \in 1..Len(p.paths)}

\* the value a document holds at a segment sequence
ValueAt(d, segs) == GetLoop(d, segs, 1).v

\* the N with N <= L/4*3/1024 < N + 1
ApproxKB(L) == CHOOSE n \in 0..L : n * 4096 <= 3 * L /\ 3 * L < (n + 1) * 4096

\* the tree maskBase64Content returned
Masked == Deref(heap, ret)

-----------------------------------------------------------------------------
(* C1-C6: the masker *)

\* C1: the JSON text maskAndSaveJson writes holds no string of more than 100
\* characters that the document carries at predictions[i].bytesBase64Encoded,
\* predictions[i].images[k].bytesBase64Encoded or
\* candidates[i].content.parts[j].inlineData.data.
C1_NoRawPayloadInFile ==
  pc = "saved" =>
    \A v \in PredictionBytes(obj0) \cup PredictionImageBytes(obj0)
               \cup InlineImageData(obj0) :
      IsRawPayload(v) => v.s \notin Literals(fs[JsonFile])

\* C2: a string of length L at a path the masker identifies is replaced if
\* and only if L > 100, and then by "[BASE64_DATA_MASKED: ~N KB]" with
\* N = floor(3L/4096); a string of 100 characters or fewer is kept.
C2_MaskIffOver100 ==
  pc = "masked" =>
    \A segs \in IdentifiedSegments(obj0) :
      LET before == ValueAt(obj0, segs)
          after == ValueAt(Masked, segs) IN
      before.t = "str" =>
        IF Len(before.s) > 100
        THEN after = Str("[BASE64_DATA_MASKED: ~"
                           \o ToString(ApproxKB(Len(before.s))) \o " KB]")
        ELSE after = before

\* C2 witness: one call kept a 100-character value and replaced a
\* 1366-character one by the 1 KB placeholder.
C2_Witness ==
  /\ pc = "masked"
  /\ \E s1, s2 \in IdentifiedSegments(obj0) :
       /\ ValueAt(obj0, s1) = Str(Payload(100))
       /\ ValueAt(Masked, s1) = Str(Payload(100))
       /\ ValueAt(obj0, s2) = Str(Payload(1366))
       /\ ValueAt(Masked, s2) = Str("[BASE64_DATA_MASKED: ~1 KB]")

\* C3: the document maskBase64Content returns has no string of more than 100
\* characters at any predictions[i].bytesBase64Encoded and none at any
\* candidates[i].content.parts[j].inlineData.data, also when the document
\* has both arrays.
C3_NoLongStringAtPayloadPaths ==
  pc = "masked" =>
    \A v \in PredictionBytes(Masked) \cup InlineImageData(Masked) :
      ~IsRawPayload(v)

\* C4: maskBase64Content leaves its argument as it was, returns another
\* object than the one it was given, changes no leaf outside the paths it
\* identifies, and returns a deep-equal document when the argument has
\* neither a predictions nor a candidates array.
C4_ArgumentNotMutated ==
  /\ pc \in {"masked", "threw"} => Deref(heap, obj) = obj0
  /\ pc = "masked" /\ obj.t = "ref" =>
       /\ ret.t = "ref" /\ ret.r # obj.r
       /\ {l.path : l \in Leaves(Masked, <<>>)} = {l.path : l \in Leaves(obj0, <<>>)}
       /\ \A l \in Leaves(obj0, <<>>) :
            l.path \notin IdentifiedSegments(obj0) => l \in Leaves(Masked, <<>>)
       /\ (~IsArray(Child(obj0, "predictions")) /\ ~IsArray(Child(obj0, "candidates")))
            => Masked = obj0

\* C4 witness: a call that replaced a payload in its copy and left a long
\* string outside the identified paths where it was.
C4_Witness ==
  /\ pc = "masked"
  /\ obj.t = "ref"
  /\ Masked # obj0
  /\ Child(obj0, "modelVersion") = Str(LongText)

\* C5: maskBase64Content raises no exception, whatever the document.
C5_NeverThrows == pc \notin {"threw", "savethrew"}

\* C6: masking the document maskBase64Content returned gives a document
\* deep-equal to it, and the second pass raises nothing.
C6_Idempotent ==
  /\ pc # "threw2"
  /\ pc = "remasked" => Deref(heap, ret2) = Masked

\* C6 witness: the second pass ran over a document in which the first had
\* put two different placeholders.
C6_Witness ==
  /\ pc = "remasked"
  /\ \E s1, s2 \in IdentifiedSegments(obj0) :
       /\ ValueAt(Masked, s1) = Str("[BASE64_DATA_MASKED: ~0 KB]")
       /\ ValueAt(Masked, s2) = Str("[BASE64_DATA_MASKED: ~1 KB]")

-----------------------------------------------------------------------------
(* Vocabulary of the Imagen claims *)

\* the predictions of the response, none when the field is absent or empty
Predictions == IF HasPredictions(result) THEN GetProp(result, "predictions").a ELSE <<>>

\* a field of the returned record, undefined when the record has none
Field(rec, k) == IF k \in DOMAIN rec THEN rec[k] ELSE Undef

\* the prediction carries a filter reason
CarriesReason(p) == Truthy(Child(p, "raiFilteredReason"))

\* the predictions whose reason contains the given text
ReasonsContaining(text) ==
  {n \in 1..Len(Predictions) :
     /\ CarriesReason(Predictions[n])
     /\ Includes(Child(Predictions[n], "raiFilteredReason").s, text)}

\* the image files on disk
ImageFiles == {p \in DOMAIN fs : OccursAt(p, outputDir \o "/", 1)}

\* the n of "filtered out <n> generated images" in a reason, 0 without one
NumberFiltered(reason) ==
  IF \E n \in 0..9 : Includes(reason, "filtered out " \o ToString(n) \o " generated images")
  THEN CHOOSE n \in 0..9 :
         Includes(reason, "filtered out " \o ToString(n) \o " generated images")
  ELSE 0

\* the sum of NumberFiltered over the predictions that carry a reason
RECURSIVE SumFiltered(_)
SumFiltered(n) ==
  IF n = 0 THEN 0
  ELSE SumFiltered(n - 1)
         + (IF CarriesReason(Predictions[n])
            THEN NumberFiltered(Child(Predictions[n], "raiFilteredReason").s)
            ELSE 0)

\* the blocked count a returned record reports
ReportedBlocked(rec) ==
  IF rec.success = Bool(TRUE) THEN Field(rec, "blocked") ELSE Field(rec, "blockedCount")

\* the extension a MIME type stands for
ExpectedExt(mimeType) ==
  CASE mimeType = Str("image/png") -> "png"
    [] mimeType = Str("image/jpeg") -> "jpeg"
    [] OTHER -> "png"

\* the images of the response: prediction index, image index, path
ImageSlots ==
  UNION {
    LET p == Predictions[n]
        images == Child(p, "images") IN
    IF CarriesReason(p) THEN {}
    ELSE IF images.t = "arr" /\ images.a # <<>>
         THEN {[i |-> n - 1, k |-> m - 1,
                path |-> outputDir \o "/" \o requestId \o "_" \o ToString(n - 1)
                           \o "_" \o ToString(m - 1) \o ".png"] :
                 m \in {m \in 1..Len(images.a) :
                          Truthy(Child(images.a[m], "bytesBase64Encoded"))}}
         ELSE IF Truthy(Child(p, "bytesBase64Encoded"))
              THEN {[i |-> n - 1, k |-> 0,
                     path |-> outputDir \o "/" \o requestId \o "_" \o ToString(n - 1)
                                \o "." \o ExpectedExt(Child(p, "mimeType"))]}
              ELSE {}
    : n \in 1..Len(Predictions)}

\* a slot comes before another in (prediction index, image index) order
SlotBefore(a, b) == a.i < b.i \/ (a.i = b.i /\ a.k < b.k)

\* the paths of the slots in ascending order
ExpectedPaths ==
  [n \in 1..Cardinality(ImageSlots) |->
     (CHOOSE s \in ImageSlots :
        Cardinality({t \in ImageSlots : SlotBefore(t, s)}) = n - 1).path]

StrSeq(paths) == Arr([n \in 1..Len(paths) |-> Str(paths[n])])

-----------------------------------------------------------------------------
(* C7-C10: the Imagen normaliser *)

\* C7 as stated: when any prediction carries a raiFilteredReason that
\* contains "All images were filtered out", the call returns success=false,
\* blocked=true, raiFiltered=true with the reason as details and no image
\* file has been written.
C7_AsStated ==
  ReasonsContaining("All images were filtered out") # {} =>
    /\ ImageFiles = {}
    /\ pc = "done" =>
         /\ out.success = Bool(FALSE)
         /\ Field(out, "blocked") = Bool(TRUE)
         /\ Field(out, "raiFiltered") = Bool(TRUE)

\* C7 as amended: when any prediction carries a raiFilteredReason that
\* contains "Unable to show generated images. All images were filtered out",
\* the call returns success=false, blocked=true, raiFiltered=true with the
\* text of the first such reason as details, and no image file is ever
\* written, whatever the other predictions hold.
C7_AllFilteredBlocks ==
  LET hits == ReasonsContaining(
                "Unable to show generated images. All images were filtered out") IN
  hits # {} =>
    /\ ImageFiles = {}
    /\ writes = <<>>
    /\ pc = "done" =>
         /\ out.success = Bool(FALSE)
         /\ Field(out, "blocked") = Bool(TRUE)
         /\ Field(out, "raiFiltered") = Bool(TRUE)
         /\ Field(out, "details")
              = Child(Predictions[CHOOSE n \in hits : \A m \in hits : n <= m],
                      "raiFilteredReason")

\* C7 witness: the call has returned for a response whose first prediction
\* is a valid image and whose second carries the all-filtered reason.
C7_Witness ==
  /\ pc = "done"
  /\ Len(Predictions) = 2
  /\ Predictions[1] = Obj([bytesBase64Encoded |-> Str(PngBytes),
                           mimeType |-> Str("image/png")])
  /\ Predictions[2] = Obj([raiFilteredReason |-> Str(AllFilteredReason)])
  /\ Field(out, "raiFiltered") = Bool(TRUE)

\* C8: for a response that is not fully filtered the blocked count returned
\* is the sum, over the predictions with a raiFilteredReason, of the n of
\* "filtered out <n> generated images" (0 without one), and no image file
\* comes from a prediction that carries a reason.
C8_BlockedCountIsSum ==
  /\ \A n \in 1..Len(Predictions) :
       CarriesReason(Predictions[n]) =>
         \A p \in DOMAIN fs :
           /\ ~OccursAt(p, outputDir \o "/" \o requestId \o "_" \o ToString(n - 1) \o "_", 1)
           /\ ~OccursAt(p, outputDir \o "/" \o requestId \o "_" \o ToString(n - 1) \o ".", 1)
  /\ (/\ pc = "done"
      /\ Predictions # <<>>
      /\ ReasonsContaining(AllFilteredSentinel) = {})
       => ReportedBlocked(out) = Num(SumFiltered(Len(Predictions)))

\* C8 witness: one reason with n = 2 and one valid prediction gave success
\* with blocked = 2 and exactly one image.
C8_Witness ==
  /\ pc = "done"
  /\ run = 1
  /\ Predictions = <<Obj([raiFilteredReason |-> Str(SomeFilteredReason(2))]),
                     Obj([bytesBase64Encoded |-> Str(PngBytes),
                          mimeType |-> Str("image/png")])>>
  /\ out.success = Bool(TRUE)
  /\ out.blocked = Num(2)
  /\ Len(out.images.a) = 1
  /\ Cardinality(ImageFiles) = 1

\* C9: the images are written and listed in ascending (prediction index,
\* image index) order under the names <requestId>_<i>_<k>.png and
\* <requestId>_<i>.<ext>, and a second extraction over the same response
\* with the same requestId lists the same paths and leaves the same files.
C9_OrderedDeterministicNames ==
  /\ (pc = "done" /\ out.success = Bool(TRUE)) =>
       /\ out.images = StrSeq(ExpectedPaths)
       /\ writes = ExpectedPaths
  /\ (pc = "done" /\ run = 2) =>
       /\ out.success = first.success
       /\ out.images = StrSeq(first.images)
       /\ writes = first.writes
       /\ fs = first.fs

\* C9 witness: the second extraction has ended for a response with an images
\* array and a single jpeg payload.
C9_Witness ==
  /\ pc = "done"
  /\ run = 2
  /\ Len(out.images.a) = 3
  /\ out.images.a[3] = Str(outputDir \o "/" \o requestId \o "_1.jpeg")
  /\ out.images.a[2] = Str(outputDir \o "/" \o requestId \o "_0_2.png")

\* C10: for a response that is not fully filtered, the call returns
\* success=true with the image list and the generated and blocked counts
\* exactly when an image was saved, success=false with the accumulated
\* blocked count when predictions were there but none was saved, and
\* success=false with "No predictions found in response" when the
\* predictions are absent or empty.
C10_Outcome ==
  (pc = "done" /\ ReasonsContaining(AllFilteredSentinel) = {}) =>
    IF Predictions = <<>>
    THEN /\ out.success = Bool(FALSE)
         /\ Field(out, "error") = Str("No predictions found in response")
    ELSE IF ImageFiles # {}
         THEN /\ out.success = Bool(TRUE)
              /\ out.images = StrSeq(writes)
              /\ out.generated = Num(Len(writes))
              /\ out.blocked = Num(SumFiltered(Len(Predictions)))
         ELSE /\ out.success = Bool(FALSE)
              /\ Field(out, "blockedCount") = Num(SumFiltered(Len(Predictions)))

\* C10 witness: predictions were there, two images were filtered and none
\* saved: a failure that carries the count.
C10_Witness ==
  /\ pc = "done"
  /\ Predictions = <<Obj([raiFilteredReason |-> Str(SomeFilteredReason(2))])>>
  /\ out.success = Bool(FALSE)
  /\ Field(out, "blockedCount") = Num(2)
  /\ ImageFiles = {}

-----------------------------------------------------------------------------
(* Vocabulary of the Gemini claims *)

\* candidates[n] of the response, undefined when there is none
Candidate(n) == Child(Child(result, "candidates"), ToString(n))

\* the parts of the first candidate, none when a field on the way is missing
FirstParts ==
  LET parts == Child(Child(Candidate(0), "content"), "parts") IN
  IF parts.t = "arr" THEN parts.a ELSE <<>>

\* a part that carries inline image data
IsImagePart(part) == Truthy(Child(Child(part, "inlineData"), "data"))

\* the positions of the image parts among the parts of the first candidate
ImageParts == {n \in 1..Len(FirstParts) : IsImagePart(FirstParts[n])}

\* the subtype of the MIME type of a part (the type is image/png when the
\* part names none)
SubtypeOf(part) ==
  LET mimeType == Child(Child(part, "inlineData"), "mimeType") IN
  CASE mimeType = Str("image/jpeg") -> "jpeg"
    [] mimeType = Str("image/png") -> "png"
    [] OTHER -> "png"

\* the k-th image part, counted from 1
KthImagePart(k) ==
  CHOOSE n \in ImageParts : Cardinality({m \in ImageParts : m < n}) = k - 1

\* <requestId>_generated_<k>.<ext> for the k-th image part, in part order
ExpectedGeminiPaths ==
  [k \in 1..Cardinality(ImageParts) |->
     outputDir \o "/" \o requestId \o "_generated_" \o ToString(k) \o "."
       \o SubtypeOf(FirstParts[KthImagePart(k)])]

-----------------------------------------------------------------------------
(* C11-C13: the Gemini normaliser *)

\* C11: when candidates[0].finishReason is "IMAGE_SAFETY" the call returns
\* success=false with safetyBlock=true and no image file is written, whatever
\* image parts the candidates carry; when it is not, the result is no safety
\* block, whatever the finish reason of the later candidates.
C11_SafetyBlocksOnFirstCandidate ==
  /\ Child(Candidate(0), "finishReason") = Str(ImageSafety) =>
       /\ ImageFiles = {}
       /\ writes = <<>>
       /\ pc = "done" =>
            /\ out.success = Bool(FALSE)
            /\ Field(out, "safetyBlock") = Bool(TRUE)
  /\ (pc = "done" /\ Child(Candidate(0), "finishReason") # Str(ImageSafety)) =>
       Field(out, "safetyBlock") = Undef

\* a blocked response whose first and second candidate both carry an image
C11_Witness ==
  /\ pc = "done"
  /\ Child(Candidate(0), "finishReason") = Str(ImageSafety)
  /\ ImageParts # {}
  /\ Candidate(1) # Undef
  /\ Field(out, "safetyBlock") = Bool(TRUE)

\* C12: one file per image part of candidates[0].content.parts, written in
\* part order and named <requestId>_generated_<n>.<ext> with n = 1, 2, ...
\* over the image parts only and ext the subtype of the part's MIME type;
\* the returned image list is in the same order.
C12_GeneratedNamesInPartOrder ==
  (pc = "done" /\ out.success = Bool(TRUE)) =>
    /\ Field(out, "images") = StrSeq(ExpectedGeminiPaths)
    /\ writes = ExpectedGeminiPaths
    /\ ImageFiles = {ExpectedGeminiPaths[k] : k \in 1..Len(ExpectedGeminiPaths)}

\* a text part comes before an image part, which is saved as number 1
C12_Witness ==
  /\ pc = "done"
  /\ out.success = Bool(TRUE)
  /\ Len(FirstParts) >= 2
  /\ ~IsImagePart(FirstParts[1])
  /\ IsImagePart(FirstParts[2])
  /\ writes # <<>>

\* C13 as stated: a response with no inline-image part, or without
\* candidates, content or parts, returns success=true with an empty image
\* list.
C13_AsStated ==
  (pc = "done" /\ ImageParts = {}) =>
    /\ out.success = Bool(TRUE)
    /\ Field(out, "images") = Arr(<<>>)

\* C13 amended: a response whose first candidate is not finished for
\* IMAGE_SAFETY and has no inline-image part, or that has no candidates,
\* content or parts, returns success=true with an empty image list; nothing
\* is written but the response file.
C13_NoImageIsSuccess ==
  (pc = "done" /\ ImageParts = {}
     /\ Child(Candidate(0), "finishReason") # Str(ImageSafety)) =>
    /\ out.success = Bool(TRUE)
    /\ Field(out, "images") = Arr(<<>>)
    /\ ImageFiles = {}

\* a response without candidates has been answered
C13_Witness ==
  /\ pc = "done"
  /\ Candidate(0) = Undef
  /\ out.success = Bool(TRUE)
  /\ Field(out, "images") = Arr(<<>>)

-----------------------------------------------------------------------------
(* C14, C16: the invocation as a whole *)

\* the invocation has returned
Returned == pc = "done"

\* a step of the invocation failed, and it was not the transport
StepFailed == failed # {} /\ "transport" \notin failed

\* C14: an invocation in which a step failed (a status that is not OK, a
\* content-policy block, a reference image that cannot be read, missing
\* predictions, a failed write of a file) and that was not a transport
\* failure returns success=false with an error string, never success=true.
C14_FailureNeverSucceeds ==
  (Returned /\ StepFailed) =>
    /\ out.success = Bool(FALSE)
    /\ Field(out, "error").t = "str"

\* C16: an invocation that has sent its request and had an HTTP answer, no
\* write refused, leaves the request file and the masked response file in
\* the JSON directory, whether the status is OK or not.
C16_RequestAndResponseFiles ==
  (Returned /\ sent > 0 /\ response.kind = "http" /\ failing = {}) =>
    /\ requestFilename(requestId) \in DOMAIN fs
    /\ responseFilename(requestId) \in DOMAIN fs

-----------------------------------------------------------------------------
(* C15: fetchWithProxy *)

\* C15: when --no-proxy is set, no request of the call, the first or the
\* retry after a network error, goes through a proxy agent.
C15_NoProxyMeansNoAgent ==
  argv.noProxy => \A k \in 1..Len(requests) : requests[k] = NoAgent

-----------------------------------------------------------------------------
(* C17: saveFile *)

\* s is base64 text: letters of the alphabet in groups of four, the last
\* group filled with one or two '='
IsBase64Text(s) ==
  LET n == Len(BeforePadding(s)) IN
  /\ Len(s) % 4 = 0
  /\ Len(s) - n <= 2
  /\ \A k \in 1..n : \E j \in 1..64 : CharAt(Base64Alphabet, j) = CharAt(s, k)
  /\ \A k \in (n + 1)..Len(s) : CharAt(s, k) = "="

\* s is what a base64 encoder writes: base64 text whose last letter before
\* the padding has no bit left over
IsEncoded(s) ==
  LET n == Len(BeforePadding(s)) IN
  /\ IsBase64Text(s)
  /\ Len(s) - n = 1 => Base64Value(CharAt(s, n)) % 4 = 0
  /\ Len(s) - n = 2 => Base64Value(CharAt(s, n)) % 16 = 0

\* the call of saveFile has returned
Saved == pc = "done" /\ args.op = "saveFile" /\ ~returned.threw

\* C17 as stated: saveFile returns the path it was given and, with
\* isBase64, the bytes of the file encoded again are the base64 string s it
\* was given, for every base64 string s.
C17_AsStated ==
  Saved =>
    /\ returned.v = Str(args.filePath)
    /\ (args.isBase64 /\ IsBase64Text(args.data)) =>
         ToBase64(fs[args.filePath]) = args.data

\* C17 amended: saveFile returns the path it was given; with isBase64 the
\* bytes of the file, encoded again, are the string it was given when that
\* string is what an encoder writes (no bit left over in the last letter),
\* whatever the path held before; without isBase64 the file holds the data.
C17_SaveFileRoundTrip ==
  Saved =>
    /\ returned.v = Str(args.filePath)
    /\ (args.isBase64 /\ IsEncoded(args.data)) =>
         ToBase64(fs[args.filePath]) = args.data
    /\ ~args.isBase64 => fs[args.filePath] = args.data

\* a padded string has been saved over the other content of a first call
C17_Witness ==
  /\ Saved
  /\ run = 2
  /\ args.isBase64
  /\ args.data = "QQ=="
  /\ first.args.filePath = args.filePath
  /\ first.args.data = "iVBORw0KGgo="
  /\ first.fs[args.filePath] = BufferFromBase64("iVBORw0KGgo=")
  /\ ToBase64(fs[args.filePath]) = "QQ=="

-----------------------------------------------------------------------------
(* C18, C19: the path accessors *)

\* the segments of a path, [n] read as the segment n
NamedSegments(path) ==
  LET keep == {k \in 1..Len(path) : path[k] \notin {"[", "]", "."}}
      Nth(n) == CHOOSE k \in keep : Cardinality({j \in keep : j < k}) = n - 1 IN
  [n \in 1..Cardinality(keep) |-> path[Nth(n)]]

\* the value reached from v by the segments n, n + 1, ...; undefined where
\* there is nothing to read
RECURSIVE Reached(_, _, _)
Reached(v, segs, n) ==
  IF n > Len(segs) THEN v ELSE Reached(Child(v, segs[n]), segs, n + 1)

\* a segment before the last one leads to nothing
IntermediateMissing(root, segs) ==
  \E n \in 1..(Len(segs) - 1) : Reached(root, SubSeq(segs, 1, n), 1) = Undef

\* the calls have returned
GetDone == pc = "done" /\ args.op = "get"
SetDone == pc = "done" /\ args.op = "set"

\* C18: getValueAtPath returns the value reached by following the segments
\* of the path, and undefined, without throwing, when an intermediate
\* segment is missing, for every root and path.
C18_GetFollowsPath ==
  GetDone =>
    /\ ~returned.threw
    /\ returned.v = Reached(obj0, NamedSegments(args.path), 1)

\* C19: setValueAtPath leaves the root as it was and raises no error when an
\* intermediate segment is missing; otherwise the value is at the final
\* segment afterwards and every other path reads as before.
C19_SetOnlyFinalSegment ==
  SetDone =>
    LET segs == NamedSegments(args.path) IN
    /\ ~returned.threw
    /\ IF IntermediateMissing(obj0, segs) THEN heap[obj.r] = obj0
       ELSE /\ Reached(heap[obj.r], segs, 1) = args.value
            /\ \A p \in PathTexts :
                 LET q == NamedSegments(p) IN
                 (~(Len(q) <= Len(segs) /\ SubSeq(segs, 1, Len(q)) = q)
                    /\ ~(Len(segs) <= Len(q) /\ SubSeq(q, 1, Len(segs)) = segs)) =>
                   Reached(heap[obj.r], q, 1) = Reached(obj0, q, 1)

-----------------------------------------------------------------------------
(* C20: the person-generation value of the request *)

\* C20: the personGeneration value of the Imagen request is one of the
\* documented choices block_all, block_children, allow_adult, whether the
\* options come from the flags or from the prompts.
C20_PersonGenerationDocumented ==
  (pc = "done" /\ args.op = "options") =>
    \E g \in PersonGenerationFlags :
      Reached(returned.v, <<"parameters", "personGeneration">>, 1) = Str(g)

-----------------------------------------------------------------------------
(* C21: the retry of fetchWithProxy *)

\* the catch of fetchWithProxy caught a failure of the request itself
NetworkFailure == error.kind = "error" /\ error.code \in {"ECONNRESET", "ETIMEDOUT"}

\* C21: one call of fetchWithProxy sends the request at most twice, and the
\* second time only when the first request itself failed with a network
\* error: never after a response, whatever its status, and never because
\* another step (the writing of the debug file) failed.
C21_RetryOnlyAfterNetworkError ==
  /\ Len(requests) <= 2
  /\ Len(requests) = 2 => NetworkFailure

-----------------------------------------------------------------------------
(* C22: a transport failure and the generators *)

\* fetchWithProxy threw: the request and its retry failed
TransportFailed == "transport" \in failed

\* C22: when fetchWithProxy throws, the generator returns no result record:
\* the invocation ends by the exception, which reaches the caller.
C22_TransportFailurePropagates ==
  TransportFailed => (pc = "thrown" /\ out = NoResult)

-----------------------------------------------------------------------------
(* C23: the response file of processGeminiResponse *)

\* the response file of the run is on disk
ResponseFileWritten == responseFilename(requestId) \in DOMAIN fs

\* processGeminiResponse is past lines 366-367 and looks at the response, or
\* has returned one of its own results
Inspecting ==
  \/ pc \in {"safety", "parts"}
  \/ /\ pc = "done"
     /\ \/ out = GeminiSafetyResult(requestId)
        \/ out = GeminiSuccessResult(savedImagePaths, requestId)
        \/ out = GeminiWarningResult(savedImagePaths)

\* C23: processGeminiResponse has written <jsonDir>/<requestId>_response.json
\* whenever it inspects the response or has returned (safety block, missing
\* structure, success), and whenever an image file of the run exists.
C23_ResponseFileFirst ==
  /\ Inspecting => ResponseFileWritten
  /\ (Len(writes) > 0 \/ Len(savedImagePaths) > 0) => ResponseFileWritten

\* a response with an image went through: the response file and the image
\* file are both on disk
C23_Witness ==
  /\ pc = "done"
  /\ out = GeminiSuccessResult(savedImagePaths, requestId)
  /\ Len(savedImagePaths) > 0
  /\ ResponseFileWritten

\* a safety block and a response without candidates also left the file
C23_SafetyPath ==
  pc = "done" /\ ResponseFileWritten /\ out = GeminiSafetyResult(requestId)

C23_MissingStructurePath ==
  /\ pc = "done"
  /\ ResponseFileWritten
  /\ out = GeminiSuccessResult(<<>>, requestId)
  /\ Child(result, "candidates") = Undef

-----------------------------------------------------------------------------
(* One run of the command: index.js calls a generator, the generator begins *)
(* with saveConfig, and index.js saves the directories after a success      *)

\* the directories a previous run left in the store
StoredDirs ==
  {[lastOutputDir |-> DefaultConfig.lastOutputDir,
    lastJsonDir |-> DefaultConfig.lastJsonDir],
   [lastOutputDir |-> "previous/images", lastJsonDir |-> "previous/json"]}

\* the two directories of the options, as saveConfig is handed them
OptionDirs == [lastOutputDir |-> outputDir, lastJsonDir |-> jsonDir]

\* the directories of the store cfg
Dirs(cfg) == [lastOutputDir |-> cfg.lastOutputDir, lastJsonDir |-> cfg.lastJsonDir]

\* index.js is about to call the generator
InitRun ==
  /\ pc = "entry"
  /\ vendor \in {"imagen", "gemini"}
  /\ referenceImages \in IF vendor = "gemini" THEN RefLists ELSE {<<>>}
  /\ requestId \in {IF vendor = "imagen" THEN RequestIdAt(now)
                    ELSE GeminiRequestId(referenceImages, now) : now \in Clock}
  /\ failing \in {{}} \cup {{p} : p \in InvokeFiles(vendor, requestId)}
  /\ response = NoResponse
  /\ sent = 0
  /\ env = [n \in EnvNames |-> Unset]
  /\ config \in {[k \in DOMAIN DefaultConfig |->
                    IF k \in DOMAIN d THEN d[k] ELSE DefaultConfig[k]] :
                 d \in StoredDirs}
  /\ argv = [noProxy |-> FALSE, detectProxy |-> FALSE, debug |-> FALSE]
  /\ proxyAgent = NoAgent
  /\ fetchOptions = [agent |-> NoAgent]
  /\ requests = <<>>
  /\ error = NoError
  /\ original = [HTTP_PROXY |-> Unset, HTTPS_PROXY |-> Unset]
  /\ NoCall
  /\ failed = {}
  /\ result = Undef
  /\ heap = <<>>
  /\ obj = Undef
  /\ obj0 = Undef
  /\ ret = Undef
  /\ ret2 = Undef
  /\ fs = [p \in {} |-> <<>>]
  /\ writes = <<>>
  /\ savedImagePaths = <<>>
  /\ generatedCount = 0
  /\ blockedCount = 0
  /\ i = 0
  /\ out = NoResult
  /\ run = 1
  /\ first = NoResult
  /\ imageCount = 0
  /\ totalRequested = IF vendor = "imagen" THEN Num(DefaultCount) ELSE Undef
  /\ logged = <<>>

\* generateImagesWithImagen lines 16-37, generateImagesWithGemini lines
\* 446-460: the options are taken apart and the two directories are saved
GeneratorEntry ==
  /\ pc = "entry"
  /\ config' = saveConfig(config, OptionDirs)
  /\ pc' = "start"
  /\ UNCHANGED <<heap, obj, obj0, ret, ret2, fs, writes, result, requestId,
                 savedImagePaths, generatedCount, blockedCount, i, out, run, first,
                 failing, imageCount, failed, vendor, response, referenceImages,
                 sent, env, argv, proxyAgent, fetchOptions, requests, error,
                 original, callVars, countVars>>

\* index.js lines 313-329 and 352-369: the result is back; after a success
\* the two directories are saved
AfterGenerator ==
  /\ pc = "done"
  /\ config' = IF out.success = Bool(TRUE) THEN saveConfig(config, OptionDirs)
               ELSE config
  /\ pc' = "exit"
  /\ UNCHANGED <<heap, obj, obj0, ret, ret2, fs, writes, result, requestId,
                 savedImagePaths, generatedCount, blockedCount, i, out, run, first,
                 failing, imageCount, failed, vendor, response, referenceImages,
                 sent, env, argv, proxyAgent, fetchOptions, requests, error,
                 original, callVars, countVars>>

NextRun == GeneratorEntry \/ NextInvoke \/ AfterGenerator

SpecRun == InitRun /\ [][NextRun]_vars

-----------------------------------------------------------------------------
(* C24: the stored directories *)

\* C24: lastOutputDir and lastJsonDir of the store are written only at the
\* end of a run and only after a success: a step that changes either of them
\* starts from a returned result with success = true.
C24_DirsSavedOnlyAfterSuccess ==
  [][Dirs(config') # Dirs(config) => (pc = "done" /\ out.success = Bool(TRUE))]_vars

\* a run that ended with success = false has changed the stored directories
C24_FailureChangedDirs ==
  /\ pc = "exit"
  /\ out.success = Bool(FALSE)
  /\ Dirs(config) = OptionDirs
  /\ Dirs(config) # Dirs(DefaultConfig)

-----------------------------------------------------------------------------
(* C25: the accounting step of generateImagesWithImagen *)

\* the note of the accounting step is on the console
NoteLogged == \E n \in 1..Len(logged) : logged[n] = DiscrepancyNote

\* the accounting step ran: the generator returned from the end of the
\* second pass
Accounted ==
  pc = "done" /\ out = Outcome(savedImagePaths, generatedCount, blockedCount)

\* the count the caller asked for, 1 when none was given (line 22)
RequestedCount == IF totalRequested.t = "num" THEN totalRequested.n ELSE 1

\* C25: the accounting step leaves the outcome alone: the result is the one
\* the saved images and the two counts decide, whatever count was asked for,
\* and the discrepancy note is written exactly when generated + blocked is
\* less than the requested count, which is 1 when the caller gave none.
C25_NoteIffShortfall ==
  Accounted =>
    /\ out.success = Bool(Len(savedImagePaths) > 0)
    /\ (NoteLogged
          <=> generatedCount + blockedCount < RequestedCount)

\* with a count given, the note follows the shortfall
C25_GivenCount ==
  (Accounted /\ totalRequested # Undef) =>
    (NoteLogged
       <=> generatedCount + blockedCount < RequestedCount)

-----------------------------------------------------------------------------
(* C26: a reference image that cannot be loaded *)

\* the reference images read so far: the first i of the list
ImagesRead == i

\* C26: when a reference image cannot be loaded, generateImagesWithGemini
\* returns success = false at once: no request is sent, no file is written
\* (no request JSON file), and no image after the failing one is read.
C26_ReferenceFailureStops ==
  "reference" \in failed =>
    /\ pc = "done"
    /\ out = GeminiImageFailedResult(referenceImages[ImagesRead])
    /\ out.success = Bool(FALSE)
    /\ sent = 0
    /\ requestFilename(requestId) \notin DOMAIN fs
    /\ DOMAIN fs = {}
    /\ ~referenceImages[ImagesRead].readable
    /\ \A k \in 1..(ImagesRead - 1) : referenceImages[k].readable

\* the first of two reference images could not be read, the second one,
\* which can, was never looked at
C26_Witness ==
  /\ "reference" \in failed
  /\ pc = "done"
  /\ Len(referenceImages) = 2
  /\ ImagesRead = 1
  /\ referenceImages[2].readable
  /\ sent = 0

-----------------------------------------------------------------------------
(* C27: a response of Imagen that is not OK *)

\* generateImagesWithImagen got a response whose status is not OK
ImagenNotOk == vendor = "imagen" /\ "http" \in failed

\* C27: a response that is not OK makes generateImagesWithImagen return
\* success = false with statusCode = the HTTP status in every case, the body
\* being valid JSON or not, and the request is not sent again.
C27_NotOkCarriesStatus ==
  ImagenNotOk =>
    /\ pc = "done"
    /\ out.success = Bool(FALSE)
    /\ Field(out, "statusCode") = Num(response.status)
    /\ sent = 1

\* with a body that is valid JSON the record carries the status and the
\* flags of the claim
C27_JsonBody ==
  (ImagenNotOk /\ response.json) =>
    /\ pc = "done"
    /\ out.success = Bool(FALSE)
    /\ Field(out, "statusCode") = Num(response.status)
    /\ sent = 1
    /\ Field(out, "blocked") = Bool(TRUE)
         <=> (response.status = 400
                /\ Includes(Child(Child(response.body, "error"), "message").s,
                            SafetyThreshold))
    /\ Field(out, "permissionIssue") = Bool(TRUE)
         <=> (response.status = 400
                /\ Includes(Child(Child(response.body, "error"), "message").s,
                            PersonGenerationUnavailable))

-----------------------------------------------------------------------------
(* C28: the success results of generateImagesWithImagen *)

\* generateImagesWithImagen returned success = true
ImagenSucceeded == vendor = "imagen" /\ pc = "done" /\ out.success = Bool(TRUE)

\* the paths of the images field of a result, in order
ImagePaths(rec) == [n \in 1..Len(rec.images.a) |-> rec.images.a[n].s]

\* C28: in every success result of generateImagesWithImagen, generated is
\* the number of entries of images, images is not empty, its paths are
\* pairwise distinct, and the run wrote exactly one file per entry: the
\* image files written are the entries, in order, and each is on disk.
C28_SuccessResultShape ==
  ImagenSucceeded =>
    /\ out.generated = Num(Len(out.images.a))
    /\ Len(out.images.a) > 0
    /\ \A m, n \in 1..Len(out.images.a) :
         m # n => ImagePaths(out)[m] # ImagePaths(out)[n]
    /\ writes = ImagePaths(out)
    /\ \A n \in 1..Len(out.images.a) : ImagePaths(out)[n] \in DOMAIN fs

\* a success with images of two predictions
C28_Witness ==
  /\ ImagenSucceeded
  /\ Len(out.images.a) >= 2
  /\ writes = ImagePaths(out)

-----------------------------------------------------------------------------
(* C29: HTTP_PROXY and HTTPS_PROXY around getAccessToken and fetchWithProxy *)

\* the function has ended, by a return or by an exception
Exited == pc \in {"returned", "thrown"}

\* the two variables hold what originalHttpProxy and originalHttpsProxy took
\* from them
ProxyEnvAsOnEntry ==
  /\ env["HTTP_PROXY"] = original["HTTP_PROXY"]
  /\ env["HTTPS_PROXY"] = original["HTTPS_PROXY"]

\* C29: on every exit path of getAccessToken, return or exception,
\* HTTP_PROXY and HTTPS_PROXY have the values they had on entry.
C29_TokenRestoresProxyEnv == Exited => ProxyEnvAsOnEntry

\* fetchWithProxy: whenever its catch ran (the only place where it writes
\* the two variables), they are back at the exit
C29_FetchRestoresProxyEnv == (Exited /\ error # NoError) => ProxyEnvAsOnEntry

\* fetchWithProxy: without the catch the two variables are never written
C29_FetchLeavesProxyEnv ==
  [][error' = NoError =>
       /\ env'["HTTP_PROXY"] = env["HTTP_PROXY"]
       /\ env'["HTTPS_PROXY"] = env["HTTPS_PROXY"]]_vars

-----------------------------------------------------------------------------
(* detectSystemProxy called by itself, invocation after invocation of the   *)
(* command: the store stays, the environment and the flags may change       *)

\* the command starts; the store is as a former invocation left it
InitDetect ==
  /\ pc = "idle"
  /\ env \in Environments
  /\ config \in Configs
  /\ argv \in [noProxy : {FALSE}, detectProxy : BOOLEAN, debug : {FALSE}]
  /\ args = NoArgs
  /\ returned = NoReturn
  /\ proxyAgent = NoAgent
  /\ fetchOptions = [agent |-> NoAgent]
  /\ requests = <<>>
  /\ error = NoError
  /\ original = [HTTP_PROXY |-> Unset, HTTPS_PROXY |-> Unset]
  /\ requestId = ""
  /\ failing = {}
  /\ vendor = "none"
  /\ response = NoResponse
  /\ referenceImages = <<>>
  /\ sent = 0
  /\ failed = {}
  /\ result = Undef
  /\ heap = <<>>
  /\ obj = Undef
  /\ obj0 = Undef
  /\ ret = Undef
  /\ ret2 = Undef
  /\ fs = [p \in {} |-> <<>>]
  /\ writes = <<>>
  /\ savedImagePaths = <<>>
  /\ generatedCount = 0
  /\ blockedCount = 0
  /\ i = 0
  /\ out = NoResult
  /\ run = 0
  /\ first = NoResult
  /\ imageCount = 0
  /\ NoCount

\* what the other steps of this part leave alone
detectFrame ==
  <<heap, obj, obj0, ret, ret2, fs, writes, result, requestId, savedImagePaths,
    generatedCount, blockedCount, i, out, run, first, failing, imageCount, failed,
    vendor, response, referenceImages, sent, proxyAgent, fetchOptions, requests,
    error, original, countVars>>

\* detectSystemProxy(argv), lines 138-184; args keeps the flag and the
\* stored settings the call found
DetectCall ==
  /\ pc = "idle"
  /\ args' = [op |-> "detectSystemProxy", detectProxy |-> argv.detectProxy,
              stored |-> config.proxySettings]
  /\ \E d \in {detectSystemProxy(argv, env, config)} :
       /\ returned' = [threw |-> FALSE, v |-> d.settings]
       /\ config' = d.config
  /\ pc' = "detected"
  /\ UNCHANGED <<env, argv, detectFrame>>

\* the command is run again later: other values in the environment, the flag
\* --detect-proxy given or not
NextInvocation ==
  /\ pc = "detected"
  /\ env' \in Environments
  /\ argv' \in [noProxy : {FALSE}, detectProxy : BOOLEAN, debug : {FALSE}]
  /\ pc' = "idle"
  /\ UNCHANGED <<config, args, returned, detectFrame>>

NextDetect == DetectCall \/ NextInvocation

SpecDetect == InitDetect /\ [][NextDetect]_vars

-----------------------------------------------------------------------------
(* C30: stored proxy settings against the environment *)

\* what the environment says now (lines 148-150 and 166-175)
EnvSettings ==
  ProxySettings(OrElse(env["HTTP_PROXY"], env["http_proxy"]),
                OrElse(OrElse(env["HTTPS_PROXY"], env["https_proxy"]),
                       OrElse(env["HTTP_PROXY"], env["http_proxy"])),
                OrElse(env["NO_PROXY"], env["no_proxy"]))

\* the call found stored settings and --detect-proxy was not given
UsedStore == args.stored # Null /\ ~args.detectProxy

\* C30: detectSystemProxy returns the stored settings and leaves the store
\* alone whenever settings are stored and --detect-proxy is not set, whatever
\* the environment holds; otherwise it returns what the environment says and
\* stores it.
C30_StoredSettingsWin ==
  pc = "detected" =>
    IF UsedStore
    THEN returned.v = args.stored /\ config.proxySettings = args.stored
    ELSE returned.v = EnvSettings /\ config.proxySettings = EnvSettings

\* a call that returned the settings an earlier detection had stored, while
\* the environment said something else
C30_Witness ==
  /\ pc = "detected"
  /\ UsedStore
  /\ \A c \in Configs : args.stored # c.proxySettings
  /\ returned.v = args.stored
  /\ EnvSettings # args.stored
  /\ EnvSettings.httpsProxy # Unset

\* a call with --detect-proxy that replaced stored settings
C30_Redetected ==
  /\ pc = "detected"
  /\ args.stored # Null
  /\ args.detectProxy
  /\ config.proxySettings = EnvSettings
  /\ EnvSettings # args.stored

====
